---- MODULE Spec2Model ----
(***************************************************************************)
(* Model of the zoning rules (apps/core/constants.py), the mass-study      *)
(* solver (apps/mass/services.py, apps/mass/views.py) and the land         *)
(* resolution of apps/land/services.py: the cached source calls of         *)
(* LambdaProxyService, DataGoKrService and VWorldService, the parcel       *)
(* identifier built by _build_pnu, and LandService's get_land_detail,      *)
(* get_land_analysis and get_regulation.                                   *)
(*                                                                         *)
(* Numbers.  Python floats are modelled as exact numbers: a rational is a  *)
(* record [n, d] in lowest terms with d > 0, and a real is c * sqrt(r) for *)
(* rationals c and r (r = 1 for a rational value), which is closed under   *)
(* the products the solver takes of math.sqrt results.  The binary         *)
(* rounding error of IEEE doubles is not modelled.                         *)
(*                                                                         *)
(* Strings.  A Korean string is the sequence of its syllables, each        *)
(* written in Latin letters, so that Python's substring test `a in b` is   *)
(* a real search.  The empty string is << >>.                              *)
(***************************************************************************)
EXTENDS Integers, Sequences, FiniteSets, TLC

VARIABLES
    landCache,     \* LandCache table: pnu -> row or NoRow
    landUseSrc,    \* what the zoning-plan upstream answers for a pnu
    sources,       \* what the other upstreams answer, and the configured API keys
    dispatched,    \* external requests sent by the last call, in order
    cache,         \* django cache: key -> cached value or NoEntry
    massStudies,   \* MassStudy table, in creation order
    request,       \* arguments of the call being served
    calc,          \* local variables of the last MassCalculationService.calculate
    response,      \* value returned by the last call
    limiter        \* rate limiter: the DISABLE_RATE_LIMIT setting and the requests inside
                   \* a rate_limit_free wrapper, each with its position and locals

vars == <<landCache, landUseSrc, sources, dispatched, cache, massStudies, request, calc, response,
          limiter>>

-----------------------------------------------------------------------------
(* Exact arithmetic *)

Abs(x) == IF x < 0 THEN 0 - x ELSE x

RECURSIVE GCD(_, _)
GCD(a, b) == IF b = 0 THEN a ELSE GCD(b, a % b)

Rat(n, d) ==
    LET g == GCD(Abs(n), Abs(d))
        s == IF d < 0 THEN 0 - 1 ELSE 1
    IN  [n |-> s * (n \div g), d |-> Abs(d) \div g]

Zero == [n |-> 0, d |-> 1]
One == [n |-> 1, d |-> 1]
Int2Rat(i) == [n |-> i, d |-> 1]

\* sum of two rationals over the least common denominator
RAdd(a, b) ==
    LET g == GCD(a.d, b.d)
    IN  Rat(a.n * (b.d \div g) + b.n * (a.d \div g), (a.d \div g) * b.d)
RNeg(a) == [n |-> 0 - a.n, d |-> a.d]
RSub(a, b) == RAdd(a, RNeg(b))

\* product of two rationals in lowest terms, reduced crosswise before multiplying
RMul(a, b) ==
    IF a.n = 0 \/ b.n = 0 THEN Zero
    ELSE LET g1 == GCD(Abs(a.n), b.d)
             g2 == GCD(Abs(b.n), a.d)
         IN  [n |-> (a.n \div g1) * (b.n \div g2), d |-> (a.d \div g2) * (b.d \div g1)]

RInv(a) == IF a.n < 0 THEN [n |-> 0 - a.d, d |-> 0 - a.n] ELSE [n |-> a.d, d |-> a.n]
RDiv(a, b) == RMul(a, RInv(b))

RLeq(a, b) == a.n * b.d <= b.n * a.d
RLt(a, b) == a.n * b.d < b.n * a.d

RFloor(a) == a.n \div a.d

\* Python int(x): truncation toward zero
IntTrunc(a) == IF a.n >= 0 THEN a.n \div a.d ELSE 0 - ((0 - a.n) \div a.d)

RECURSIVE Pow10(_)
Pow10(k) == IF k = 0 THEN 1 ELSE 10 * Pow10(k - 1)

\* Python round(x, k): nearest multiple of 10^-k, a tie goes to the even one
RRound(a, k) ==
    LET s == Pow10(k)
        x == RMul(a, Int2Rat(s))
        q == RFloor(x)
        twiceRem == 2 * (x.n - q * x.d)
        up == \/ twiceRem > x.d
              \/ twiceRem = x.d /\ q % 2 = 1
    IN  Rat(IF up THEN q + 1 ELSE q, s)

RECURSIVE ISqrtIn(_, _, _)
ISqrtIn(n, lo, hi) ==
    IF lo >= hi THEN lo
    ELSE LET mid == (lo + hi + 1) \div 2
         IN  IF mid * mid <= n THEN ISqrtIn(n, mid, hi) ELSE ISqrtIn(n, lo, mid - 1)

\* largest k with k * k <= n
ISqrt(n) == ISqrtIn(n, 0, IF n < 46340 THEN n ELSE 46340)

IsSquare(n) == ISqrt(n) * ISqrt(n) = n

\* reals c * sqrt(r)
Real(q) == [c |-> q, r |-> One]
IsRational(x) == x.r = One

\* math.sqrt of a non-negative rational
Sqrt(q) ==
    IF IsSquare(q.n) /\ IsSquare(q.d)
    THEN Real([n |-> ISqrt(q.n), d |-> ISqrt(q.d)])
    ELSE [c |-> One, r |-> q]

MulReal(a, b) ==
    IF a.r = b.r THEN Real(RMul(RMul(a.c, b.c), a.r))
    ELSE IF a.r = One THEN [c |-> RMul(a.c, b.c), r |-> b.r]
    ELSE IF b.r = One THEN [c |-> RMul(a.c, b.c), r |-> a.r]
    ELSE LET s == Sqrt(RMul(a.r, b.r))
         IN  [c |-> RMul(RMul(a.c, b.c), s.c), r |-> s.r]

DivReal(a, b) == MulReal(a, [c |-> RInv(RMul(b.c, b.r)), r |-> b.r])

\* the square of a real, a rational
SquareOf(x) == RMul(RMul(x.c, x.c), x.r)

\* x <= y and x < y for non-negative reals
LeqReal(x, y) ==
    IF IsRational(x) /\ IsRational(y) THEN RLeq(x.c, y.c)
    ELSE RLeq(SquareOf(x), SquareOf(y))
LtReal(x, y) == ~LeqReal(y, x)

\* Python int(x) of a non-negative real
IntReal(x) ==
    IF IsRational(x) THEN IntTrunc(x.c)
    ELSE LET q == SquareOf(x)
             f == ISqrt(q.n \div q.d)
         IN  IF (f + 1) * (f + 1) * q.d <= q.n THEN f + 1 ELSE f

\* Python round(x, k) of a non-negative real
RoundReal(x, k) ==
    IF IsRational(x) THEN RRound(x.c, k)
    ELSE LET s == Pow10(k)
             q == RMul(SquareOf(x), Int2Rat(s * s))
             m == ISqrt(q.n \div q.d)
             up == (2 * m + 1) * (2 * m + 1) * q.d <= 4 * q.n
         IN  Rat(IF up THEN m + 1 ELSE m, s)

-----------------------------------------------------------------------------
(* Strings *)

\* Python `sub in s`
Contains(sub, s) ==
    \E i \in 0..(Len(s) - Len(sub)) : SubSeq(s, i + 1, i + Len(sub)) = sub

\* Python None, for a string-valued and for a number-valued field
NoneStr == <<"None">>
NoneNum == [none |-> TRUE]

\* Python truthiness of an optional string and of an optional number
TruthyStr(s) == s # NoneStr /\ s # << >>
TruthyNum(x) == x # NoneNum /\ x.n # 0

-----------------------------------------------------------------------------
(* apps/core/constants.py *)

ZONE_RES_EXCL_1 == <<"je", "1", "jong", "jeon", "yong", "ju", "geo", "ji", "yeok">>   \* 제1종전용주거지역
ZONE_RES_EXCL_2 == <<"je", "2", "jong", "jeon", "yong", "ju", "geo", "ji", "yeok">>   \* 제2종전용주거지역
ZONE_RES_GEN_1 == <<"je", "1", "jong", "il", "ban", "ju", "geo", "ji", "yeok">>       \* 제1종일반주거지역
ZONE_RES_GEN_2 == <<"je", "2", "jong", "il", "ban", "ju", "geo", "ji", "yeok">>       \* 제2종일반주거지역
ZONE_RES_GEN_3 == <<"je", "3", "jong", "il", "ban", "ju", "geo", "ji", "yeok">>       \* 제3종일반주거지역
ZONE_SEMI_RES == <<"jun", "ju", "geo", "ji", "yeok">>                                 \* 준주거지역
ZONE_COM_CENTRAL == <<"jung", "sim", "sang", "eop", "ji", "yeok">>                    \* 중심상업지역
ZONE_COM_GENERAL == <<"il", "ban", "sang", "eop", "ji", "yeok">>                      \* 일반상업지역
ZONE_COM_NEIGHBOR == <<"geun", "rin", "sang", "eop", "ji", "yeok">>                   \* 근린상업지역
ZONE_SEMI_IND == <<"jun", "gong", "eop", "ji", "yeok">>                               \* 준공업지역
ZONE_GREEN_NATURAL == <<"ja", "yeon", "nok", "ji", "ji", "yeok">>                     \* 자연녹지지역
ZONE_MGMT_PLANNED == <<"gye", "hoek", "gwan", "ri", "ji", "yeok">>                    \* 계획관리지역
ZONE_MGMT_PRODUCTION == <<"saeng", "san", "gwan", "ri", "ji", "yeok">>                \* 생산관리지역
ZONE_MGMT_CONSERVATION == <<"bo", "jeon", "gwan", "ri", "ji", "yeok">>                \* 보전관리지역
ZONE_AGRI_FOREST == <<"nong", "rim", "ji", "yeok">>                                   \* 농림지역

FLOORS_4_OR_LESS == <<"4", "cheung", " ", "i", "ha">>   \* '4층 이하'
FLOORS_3_OR_LESS == <<"3", "cheung", " ", "i", "ha">>   \* '3층 이하'

MARK_RESIDENTIAL == <<"ju", "geo">>              \* '주거'
MARK_GREEN == <<"nok", "ji">>                    \* '녹지'
MARK_SETTLEMENT == <<"chwi", "rak", "ji", "gu">> \* '취락지구'
MARK_4_FLOORS == <<"4", "cheung">>               \* '4층'
MARK_3_FLOORS == <<"3", "cheung">>               \* '3층'
NOTE_SETTLEMENT == <<"chwi", "rak", "ji", "gu", " ", "teuk", "rye", " ", "jeok", "yong">> \* '취락지구 특례 적용'

JEJU_BUILDING_LIMITS ==
    (ZONE_RES_EXCL_1 :> [coverage |-> 40, far |-> 80]) @@
    (ZONE_RES_EXCL_2 :> [coverage |-> 40, far |-> 120]) @@
    (ZONE_RES_GEN_1 :> [coverage |-> 60, far |-> 200]) @@
    (ZONE_RES_GEN_2 :> [coverage |-> 60, far |-> 250]) @@
    (ZONE_RES_GEN_3 :> [coverage |-> 50, far |-> 300]) @@
    (ZONE_SEMI_RES :> [coverage |-> 60, far |-> 500]) @@
    (ZONE_COM_CENTRAL :> [coverage |-> 80, far |-> 1300]) @@
    (ZONE_COM_GENERAL :> [coverage |-> 80, far |-> 1000]) @@
    (ZONE_COM_NEIGHBOR :> [coverage |-> 60, far |-> 700]) @@
    (ZONE_SEMI_IND :> [coverage |-> 60, far |-> 300]) @@
    (ZONE_GREEN_NATURAL :> [coverage |-> 20, far |-> 80, height_limit |-> FLOORS_4_OR_LESS]) @@
    (ZONE_MGMT_PLANNED :> [coverage |-> 40, far |-> 80, height_limit |-> FLOORS_4_OR_LESS]) @@
    (ZONE_MGMT_PRODUCTION :> [coverage |-> 20, far |-> 60, height_limit |-> FLOORS_3_OR_LESS]) @@
    (ZONE_MGMT_CONSERVATION :> [coverage |-> 20, far |-> 60, height_limit |-> FLOORS_3_OR_LESS]) @@
    (ZONE_AGRI_FOREST :> [coverage |-> 20, far |-> 50, height_limit |-> FLOORS_3_OR_LESS])

SETTLEMENT_DISTRICT_LIMITS ==
    [green |-> [coverage |-> 50, far |-> 100], managed |-> [coverage |-> 60, far |-> 100]]

DEFAULT_BUILDING_LIMITS == [coverage |-> 20, far |-> 80]

DEFAULT_FLOOR_HEIGHT == [n |-> 3, d |-> 1]

\* Python dict.get(key) with the default None
GetHeightLimit(limits) ==
    IF "height_limit" \in DOMAIN limits THEN limits.height_limit ELSE NoneStr

\* variant: the table entry of a known zone wins over the settlement tuple
get_building_limits_TableFirst(use_zone, is_settlement) ==
    IF is_settlement /\ use_zone \notin DOMAIN JEJU_BUILDING_LIMITS
    THEN LET is_green == Contains(MARK_GREEN, use_zone)
             limits == IF is_green THEN SETTLEMENT_DISTRICT_LIMITS.green
                       ELSE SETTLEMENT_DISTRICT_LIMITS.managed
         IN  [coverage |-> limits.coverage, far |-> limits.far,
              height_limit |-> NoneStr, note |-> NOTE_SETTLEMENT]
    ELSE LET limits == IF use_zone \in DOMAIN JEJU_BUILDING_LIMITS
                       THEN JEJU_BUILDING_LIMITS[use_zone]
                       ELSE DEFAULT_BUILDING_LIMITS
         IN  [coverage |-> limits.coverage, far |-> limits.far,
              height_limit |-> GetHeightLimit(limits), note |-> NoneStr]

get_building_limits(use_zone, is_settlement) ==
    IF is_settlement
    THEN LET is_green == Contains(MARK_GREEN, use_zone)
             limits == IF is_green THEN SETTLEMENT_DISTRICT_LIMITS.green
                       ELSE SETTLEMENT_DISTRICT_LIMITS.managed
         IN  [coverage |-> limits.coverage, far |-> limits.far,
              height_limit |-> NoneStr, note |-> NOTE_SETTLEMENT]
    ELSE LET limits == IF use_zone \in DOMAIN JEJU_BUILDING_LIMITS
                       THEN JEJU_BUILDING_LIMITS[use_zone]
                       ELSE DEFAULT_BUILDING_LIMITS
         IN  [coverage |-> limits.coverage, far |-> limits.far,
              height_limit |-> GetHeightLimit(limits), note |-> NoneStr]

\* variant: the slope above 9 m is 1 instead of 0.5
calculate_north_setback_NoHalf(height, use_zone) ==
    IF ~Contains(MARK_RESIDENTIAL, use_zone) THEN Zero
    ELSE IF RLeq(height, Int2Rat(9)) THEN Rat(3, 2)
    ELSE RAdd(Rat(3, 2), RSub(height, Int2Rat(9)))

calculate_north_setback(height, use_zone) ==
    IF ~Contains(MARK_RESIDENTIAL, use_zone) THEN Zero
    ELSE IF RLeq(height, Int2Rat(9)) THEN Rat(3, 2)
    ELSE RAdd(Rat(3, 2), RMul(RSub(height, Int2Rat(9)), Rat(1, 2)))

\* float('inf')
Infinity == [inf |-> TRUE]

get_height_limit_from_setback(setback_distance, use_zone) ==
    IF ~Contains(MARK_RESIDENTIAL, use_zone) THEN Infinity
    ELSE RAdd(RMul(setback_distance, Int2Rat(2)), Int2Rat(8))

-----------------------------------------------------------------------------
(* apps/land/models.py, apps/mass/models.py *)

NoRow == [exists |-> FALSE]

LandRow(parcel_area, use_zone) ==
    [exists |-> TRUE, parcel_area |-> parcel_area, use_zone |-> use_zone,
     latitude |-> "lat", longitude |-> "lng"]

\* LandCache.objects.get(pnu=...), NoRow standing for LandCache.DoesNotExist
GetLand(pnu) == landCache[pnu]

-----------------------------------------------------------------------------
(* apps/mass/services.py *)

\* x - q for a real x and a rational q; an irrational x only with q = 0
SubRat(x, q) == IF IsRational(x) THEN Real(RSub(x.c, q)) ELSE x

IsPositive(x) == x.c.n > 0

\* lines 38-42: the parcel as a square, less the setbacks
BuildableDims(parcel_area, setbacks) ==
    LET side_length == Sqrt(parcel_area)
    IN  [side_length |-> side_length,
         width |-> SubRat(SubRat(side_length, setbacks.left), setbacks.right),
         depth |-> SubRat(SubRat(side_length, setbacks.front), setbacks.back)]

\* variant: `<` in place of `<=`
SetbacksInvalid_Strict(dims) == dims.width.c.n < 0 \/ dims.depth.c.n < 0

\* line 44: buildable_width <= 0 or buildable_depth <= 0
SetbacksInvalid(dims) == ~IsPositive(dims.width) \/ ~IsPositive(dims.depth)

Percent(part, whole) == MulReal(DivReal(part, Real(whole)), Real(Int2Rat(100)))

\* variant: the scale factor is the area ratio itself, without the square root
CoverageStep_NoSqrt(parcel_area, legal_coverage, width, depth) ==
    LET building_area == MulReal(width, depth)
        coverage_ratio == Percent(building_area, parcel_area)
        coverage_ok == LeqReal(coverage_ratio, Real(Int2Rat(legal_coverage)))
    IN  IF coverage_ok
        THEN [width |-> width, depth |-> depth, building_area |-> building_area,
              coverage_ratio |-> coverage_ratio, coverage_ok |-> coverage_ok,
              corrected |-> FALSE]
        ELSE LET max_building_area == RDiv(RMul(parcel_area, Int2Rat(legal_coverage)), Int2Rat(100))
                 scale_factor == DivReal(Real(max_building_area), building_area)
                 w2 == MulReal(width, scale_factor)
                 d2 == MulReal(depth, scale_factor)
             IN  [width |-> w2, depth |-> d2, building_area |-> MulReal(w2, d2),
                  coverage_ratio |-> Real(Int2Rat(legal_coverage)), coverage_ok |-> TRUE,
                  corrected |-> TRUE]

\* variant: the footprint is scaled to the legal maximum whether or not it exceeds it
CoverageStep_AlwaysScale(parcel_area, legal_coverage, width, depth) ==
    LET building_area == MulReal(width, depth)
        max_building_area == RDiv(RMul(parcel_area, Int2Rat(legal_coverage)), Int2Rat(100))
        scale_factor == Sqrt(DivReal(Real(max_building_area), building_area).c)
        w2 == MulReal(width, scale_factor)
        d2 == MulReal(depth, scale_factor)
    IN  [width |-> w2, depth |-> d2, building_area |-> MulReal(w2, d2),
         coverage_ratio |-> Real(Int2Rat(legal_coverage)), coverage_ok |-> TRUE,
         corrected |-> TRUE]

\* lines 51-66: footprint, coverage check and coverage correction
CoverageStep(parcel_area, legal_coverage, width, depth) ==
    LET building_area == MulReal(width, depth)
        coverage_ratio == Percent(building_area, parcel_area)
        coverage_ok == LeqReal(coverage_ratio, Real(Int2Rat(legal_coverage)))
    IN  IF coverage_ok
        THEN [width |-> width, depth |-> depth, building_area |-> building_area,
              coverage_ratio |-> coverage_ratio, coverage_ok |-> coverage_ok,
              corrected |-> FALSE]
        ELSE LET max_building_area == RDiv(RMul(parcel_area, Int2Rat(legal_coverage)), Int2Rat(100))
                 scale_factor == Sqrt(DivReal(Real(max_building_area), building_area).c)
                 w2 == MulReal(width, scale_factor)
                 d2 == MulReal(depth, scale_factor)
             IN  [width |-> w2, depth |-> d2, building_area |-> MulReal(w2, d2),
                  coverage_ratio |-> Real(Int2Rat(legal_coverage)), coverage_ok |-> TRUE,
                  corrected |-> TRUE]

\* variant: the floor count is rounded to the nearest integer instead of truncated
FarStep_RoundNearest(parcel_area, legal_far, building_area, target_floors) ==
    LET total_floor_area == MulReal(building_area, Real(Int2Rat(target_floors)))
        far_ratio == Percent(total_floor_area, parcel_area)
        far_ok == LeqReal(far_ratio, Real(Int2Rat(legal_far)))
    IN  IF far_ok
        THEN [actual_floors |-> target_floors, total_floor_area |-> total_floor_area,
              far_ratio |-> far_ratio, far_ok |-> far_ok, corrected |-> FALSE]
        ELSE LET max_floor_area == RDiv(RMul(parcel_area, Int2Rat(legal_far)), Int2Rat(100))
                 actual_floors ==
                     IntTrunc(RAdd(DivReal(Real(max_floor_area), building_area).c, Rat(1, 2)))
                 tfa2 == MulReal(building_area, Real(Int2Rat(actual_floors)))
             IN  [actual_floors |-> actual_floors, total_floor_area |-> tfa2,
                  far_ratio |-> Percent(tfa2, parcel_area), far_ok |-> TRUE,
                  corrected |-> TRUE]

\* variant: the floor count is always set to the most the FAR allows
FarStep_Maximise(parcel_area, legal_far, building_area, target_floors) ==
    LET max_floor_area == RDiv(RMul(parcel_area, Int2Rat(legal_far)), Int2Rat(100))
        actual_floors == IntReal(DivReal(Real(max_floor_area), building_area))
        tfa2 == MulReal(building_area, Real(Int2Rat(actual_floors)))
    IN  [actual_floors |-> actual_floors, total_floor_area |-> tfa2,
         far_ratio |-> Percent(tfa2, parcel_area), far_ok |-> TRUE,
         corrected |-> TRUE]

\* variant: the allowed floor area is divided by the total floor area, not the footprint
FarStep_PerTotal(parcel_area, legal_far, building_area, target_floors) ==
    LET total_floor_area == MulReal(building_area, Real(Int2Rat(target_floors)))
        far_ratio == Percent(total_floor_area, parcel_area)
        far_ok == LeqReal(far_ratio, Real(Int2Rat(legal_far)))
    IN  IF far_ok
        THEN [actual_floors |-> target_floors, total_floor_area |-> total_floor_area,
              far_ratio |-> far_ratio, far_ok |-> far_ok, corrected |-> FALSE]
        ELSE LET max_floor_area == RDiv(RMul(parcel_area, Int2Rat(legal_far)), Int2Rat(100))
                 actual_floors == IntReal(DivReal(Real(max_floor_area), total_floor_area))
                 tfa2 == MulReal(building_area, Real(Int2Rat(actual_floors)))
             IN  [actual_floors |-> actual_floors, total_floor_area |-> tfa2,
                  far_ratio |-> Percent(tfa2, parcel_area), far_ok |-> TRUE,
                  corrected |-> TRUE]

\* lines 68-82: total floor area, FAR check and floor-count correction
FarStep(parcel_area, legal_far, building_area, target_floors) ==
    LET total_floor_area == MulReal(building_area, Real(Int2Rat(target_floors)))
        far_ratio == Percent(total_floor_area, parcel_area)
        far_ok == LeqReal(far_ratio, Real(Int2Rat(legal_far)))
    IN  IF far_ok
        THEN [actual_floors |-> target_floors, total_floor_area |-> total_floor_area,
              far_ratio |-> far_ratio, far_ok |-> far_ok, corrected |-> FALSE]
        ELSE LET max_floor_area == RDiv(RMul(parcel_area, Int2Rat(legal_far)), Int2Rat(100))
                 actual_floors == IntReal(DivReal(Real(max_floor_area), building_area))
                 tfa2 == MulReal(building_area, Real(Int2Rat(actual_floors)))
             IN  [actual_floors |-> actual_floors, total_floor_area |-> tfa2,
                  far_ratio |-> Percent(tfa2, parcel_area), far_ok |-> TRUE,
                  corrected |-> TRUE]

\* variant: every side is held to the north setback
SetbackStep_EverySide(actual_floors, use_zone, setbacks) ==
    LET height == RMul(Int2Rat(actual_floors), DEFAULT_FLOOR_HEIGHT)
        north_setback_required == calculate_north_setback(height, use_zone)
    IN  [height |-> height, north_setback_required |-> north_setback_required,
         setback_ok |-> /\ RLeq(north_setback_required, setbacks.back)
                        /\ RLeq(north_setback_required, setbacks.front)
                        /\ RLeq(north_setback_required, setbacks.left)
                        /\ RLeq(north_setback_required, setbacks.right)]

\* lines 84-89: height and the north setback
SetbackStep(actual_floors, use_zone, setbacks) ==
    LET height == RMul(Int2Rat(actual_floors), DEFAULT_FLOOR_HEIGHT)
        north_setback_required == calculate_north_setback(height, use_zone)
    IN  [height |-> height, north_setback_required |-> north_setback_required,
         setback_ok |-> RLeq(north_setback_required, setbacks.back)]

\* variant: the cap is exclusive
HeightStep_Strict(limits, actual_floors) ==
    LET height_limit_str == limits.height_limit
    IN  IF TruthyStr(height_limit_str)
        THEN IF Contains(MARK_4_FLOORS, height_limit_str) THEN actual_floors < 4
             ELSE IF Contains(MARK_3_FLOORS, height_limit_str) THEN actual_floors < 3
             ELSE TRUE
        ELSE TRUE

\* lines 91-98: the floor cap of the zone
HeightStep(limits, actual_floors) ==
    LET height_limit_str == limits.height_limit
    IN  IF TruthyStr(height_limit_str)
        THEN IF Contains(MARK_4_FLOORS, height_limit_str) THEN actual_floors <= 4
             ELSE IF Contains(MARK_3_FLOORS, height_limit_str) THEN actual_floors <= 3
             ELSE TRUE
        ELSE TRUE

\* variant: the box is anchored at the ground instead of centred on its height
generate_geometry_FloorAnchored(land, building_area, height, width, depth, setbacks) ==
    LET center_x == RDiv(RSub(setbacks.left, setbacks.right), Int2Rat(2))
        center_z == RDiv(RSub(setbacks.front, setbacks.back), Int2Rat(2))
    IN  [type |-> "box", format |-> "three.js",
         dimensions |-> [width |-> RoundReal(width, 2), height |-> RRound(height, 2),
                         depth |-> RoundReal(depth, 2)],
         position |-> [x |-> center_x, y |-> Zero, z |-> center_z],
         land |-> [latitude |-> land.latitude, longitude |-> land.longitude]]

\* lines 131-161: the box handed to three.js
generate_geometry(land, building_area, height, width, depth, setbacks) ==
    LET center_x == RDiv(RSub(setbacks.left, setbacks.right), Int2Rat(2))
        center_z == RDiv(RSub(setbacks.front, setbacks.back), Int2Rat(2))
    IN  [type |-> "box", format |-> "three.js",
         dimensions |-> [width |-> RoundReal(width, 2), height |-> RRound(height, 2),
                         depth |-> RoundReal(depth, 2)],
         position |-> [x |-> center_x, y |-> RDiv(height, Int2Rat(2)), z |-> center_z],
         land |-> [latitude |-> land.latitude, longitude |-> land.longitude]]

\* lines 100-129: the returned dict, with the locals of the run
CalculateResult(land, setbacks, parcel_area, use_zone, limits, dims, cov, far, sb) ==
    [result |->
        [success |-> TRUE,
         building_area |-> RoundReal(cov.building_area, 2),
         total_floor_area |-> RoundReal(far.total_floor_area, 2),
         coverage_ratio |-> RoundReal(cov.coverage_ratio, 2),
         far_ratio |-> RoundReal(far.far_ratio, 2),
         floors |-> far.actual_floors,
         height |-> RRound(sb.height, 1),
         legal_check |-> [coverage_ok |-> cov.coverage_ok, far_ok |-> far.far_ok,
                          height_ok |-> HeightStep(limits, far.actual_floors),
                          setback_ok |-> sb.setback_ok],
         legal_limits |-> [coverage |-> limits.coverage, far |-> limits.far,
                           height_limit |-> limits.height_limit],
         geometry |-> generate_geometry(land, cov.building_area, sb.height,
                                        cov.width, cov.depth, setbacks)],
     locals |->
        [reached |-> "return", parcel_area |-> parcel_area, use_zone |-> use_zone,
         limits |-> limits, dims |-> dims, cov |-> cov, far |-> far, sb |-> sb]]

\* lines 68-98: the floor count for the footprint cov, then height and north setback
CalculateFloors(land, target_floors, setbacks, parcel_area, use_zone, limits, dims, cov) ==
    LET far == FarStep(parcel_area, limits.far, cov.building_area, target_floors)
    IN  CalculateResult(land, setbacks, parcel_area, use_zone, limits, dims, cov, far,
                        SetbackStep(far.actual_floors, use_zone, setbacks))

\* lines 37-66: the buildable rectangle dims and the footprint within the coverage limit
CalculateFootprint(land, target_floors, setbacks, parcel_area, use_zone, limits, dims) ==
    IF SetbacksInvalid(dims)
    THEN [result |-> [success |-> FALSE, error |-> "INVALID_SETBACKS",
                      message |-> "no buildable area"],
          locals |-> [reached |-> "setbacks", parcel_area |-> parcel_area,
                      use_zone |-> use_zone, limits |-> limits, dims |-> dims]]
    ELSE CalculateFloors(land, target_floors, setbacks, parcel_area, use_zone, limits, dims,
                         CoverageStep(parcel_area, limits.coverage, dims.width, dims.depth))

\* lines 34-42: the limits of the zone and the parcel as a square
CalculateWithin(land, target_floors, setbacks, parcel_area, use_zone) ==
    CalculateFootprint(land, target_floors, setbacks, parcel_area, use_zone,
                       get_building_limits(use_zone, FALSE),
                       BuildableDims(parcel_area, setbacks))

\* lines 19-129: MassCalculationService(pnu).calculate(building_type, target_floors, setbacks);
\* `land` is what _get_land found.  The value is the returned dict and the locals.
calculate(land, target_floors, setbacks) ==
    IF ~land.exists
    THEN [result |-> [success |-> FALSE, error |-> "LAND_NOT_FOUND"],
          locals |-> [reached |-> "land"]]
    ELSE CalculateWithin(land, target_floors, setbacks,
                         IF TruthyNum(land.parcel_area) THEN land.parcel_area
                         ELSE Int2Rat(500),
                         IF TruthyStr(land.use_zone) THEN land.use_zone ELSE ZONE_RES_GEN_2)

-----------------------------------------------------------------------------
(* apps/land/services.py: LambdaProxyService.get_land_use, LandService.get_regulation *)

NoEntry == [cached |-> FALSE]

\* no upstream other than the zoning plan is reachable and no API key is configured
NoSources == [up |-> FALSE]

\* cache timeouts in seconds
TTL_GEOCODE == 86400
TTL_PARCEL_INFO == 604800
TTL_USE_ZONE == 604800
TTL_BUILDING == 86400
TTL_REGULATION == 604800
TTL_LAND_CHAR == 604800
TTL_NEARBY == 300

ZONE_LAW == "law on planning and use of national territory"

\* lines 630-663: the zoning plan of a parcel, cached after a successful fetch.
\* The value is the returned dict and the cache afterwards.
get_land_use(pnu) ==
    LET cache_key == <<"landuse", pnu>>
        cached == cache[cache_key]
    IN  IF cached # NoEntry
        THEN [ret |-> cached.value, cache |-> cache, sent |-> << >>]
        ELSE IF ~landUseSrc[pnu].ok
        THEN [ret |-> [success |-> FALSE, error |-> "RequestException", zones |-> << >>],
              cache |-> cache, sent |-> <<"landuse">>]
        ELSE LET names == SelectSeq(landUseSrc[pnu].names, TruthyStr)
                 zones == [i \in 1..Len(names) |-> [name |-> names[i], law |-> ZONE_LAW]]
                 parsed == [success |-> TRUE, zones |-> zones,
                            primary_zone |-> IF zones # << >> THEN zones[1].name ELSE << >>]
             IN  [ret |-> parsed,
                  cache |-> [cache EXCEPT ![cache_key] =
                                [cached |-> TRUE, value |-> parsed, timeout |-> TTL_USE_ZONE]],
                  sent |-> <<"landuse">>]

\* lines 1486-1492 and 1679-1686: some zone of the zoning plan names a settlement district
HasSettlementZone(zones) ==
    \E i \in 1..Len(zones) : Contains(MARK_SETTLEMENT, zones[i].name)

\* lines 1664-1707: LandService.get_regulation(pnu).
\* The value is the returned dict and the cache afterwards.
get_regulation(pnu) ==
    LET land == GetLand(pnu)
    IN  IF ~land.exists
        THEN [ret |-> [success |-> FALSE, error |-> "NOT_FOUND"], cache |-> cache,
              sent |-> << >>]
        ELSE
        LET use_zone == IF TruthyStr(land.use_zone) THEN land.use_zone ELSE << >>
            land_use == get_land_use(pnu)
            is_settlement == land_use.ret.success /\ HasSettlementZone(land_use.ret.zones)
            limits == get_building_limits(use_zone, is_settlement)
            parcel_area == IF TruthyNum(land.parcel_area) THEN land.parcel_area ELSE Zero
            max_building_area == RDiv(RMul(parcel_area, Int2Rat(limits.coverage)), Int2Rat(100))
            max_floor_area == RDiv(RMul(parcel_area, Int2Rat(limits.far)), Int2Rat(100))
        IN  [ret |-> [success |-> TRUE,
                      data |-> [pnu |-> pnu, parcel_area |-> parcel_area, use_zone |-> use_zone,
                                coverage |-> limits.coverage, far |-> limits.far,
                                height_limit |-> limits.height_limit,
                                north_setback |-> Rat(3, 2), note |-> limits.note,
                                max_building_area |-> RRound(max_building_area, 2),
                                max_floor_area |-> RRound(max_floor_area, 2)]],
             cache |-> land_use.cache, sent |-> land_use.sent]

-----------------------------------------------------------------------------
(* apps/land/services.py: VWorldService._build_pnu, DataGoKrService.get_building_info *)
(* A string here is the sequence of its characters; "san" is the character 산.       *)

Digits == {"0", "1", "2", "3", "4", "5", "6", "7", "8", "9"}
SAN == "san"

\* ''.join(filter(pred, s))
RECURSIVE Filter(_, _)
Filter(s, keep) ==
    IF s = << >> THEN << >>
    ELSE (IF Head(s) \in keep THEN <<Head(s)>> ELSE << >>) \o Filter(Tail(s), keep)

\* s.replace('산', '')
RemoveSan(s) == SelectSeq(s, LAMBDA c : c # SAN)

\* s.strip()
RECURSIVE LStrip(_)
LStrip(s) == IF s # << >> /\ Head(s) = " " THEN LStrip(Tail(s)) ELSE s

RECURSIVE RStrip(_)
RStrip(s) ==
    IF s # << >> /\ s[Len(s)] = " " THEN RStrip(SubSeq(s, 1, Len(s) - 1)) ELSE s

Strip(s) == RStrip(LStrip(s))

\* s.split('-')[0]
RECURSIVE UpToDash(_)
UpToDash(s) ==
    IF s = << >> \/ Head(s) = "-" THEN << >> ELSE <<Head(s)>> \o UpToDash(Tail(s))

\* the text after the first '-' (the remaining parts of s.split('-'))
RECURSIVE AfterDash(_)
AfterDash(s) ==
    IF s = << >> THEN << >>
    ELSE IF Head(s) = "-" THEN Tail(s) ELSE AfterDash(Tail(s))

\* s.zfill(width) for a string of digits
RECURSIVE ZFill(_, _)
ZFill(s, width) == IF Len(s) >= width THEN s ELSE ZFill(<<"0">> \o s, width)

\* s[a:b] with Python's clipping of the bounds, 0-based
Slice(s, a, b) ==
    LET hi == IF b < Len(s) THEN b ELSE Len(s)
    IN  IF a >= hi THEN << >> ELSE SubSeq(s, a + 1, hi)

build_pnu(level4LC, jibun) ==
    IF ~TruthyStr(level4LC) \/ ~TruthyStr(jibun) THEN << >>
    ELSE LET is_san == jibun[1] = SAN
             jibun_clean == Strip(RemoveSan(jibun))
             hasDash == \E i \in 1..Len(jibun_clean) : jibun_clean[i] = "-"
             bun0 == IF hasDash THEN UpToDash(jibun_clean) ELSE jibun_clean
             ji0 == IF hasDash THEN UpToDash(AfterDash(jibun_clean)) ELSE <<"0">>
             bunD == Filter(bun0, Digits)
             jiD == Filter(ji0, Digits)
             bun == IF bunD = << >> THEN <<"0">> ELSE bunD
             ji == IF jiD = << >> THEN <<"0">> ELSE jiD
             plat_gb == IF is_san THEN "1" ELSE "0"
         IN  level4LC \o <<plat_gb>> \o ZFill(bun, 4) \o ZFill(ji, 4)

\* the slicing of get_building_info
decode_pnu(pnu) ==
    [sigungu_cd |-> Slice(pnu, 0, 5),
     bjdong_cd |-> Slice(pnu, 5, 10),
     bun |-> IF Len(pnu) >= 15 THEN Slice(pnu, 11, 15) ELSE <<"0", "0", "0", "0">>,
     ji |-> IF Len(pnu) >= 19 THEN Slice(pnu, 15, 19) ELSE <<"0", "0", "0", "0">>]

-----------------------------------------------------------------------------
(* apps/land/services.py: LambdaProxyService *)

\* The value of a cached source function is the returned dict, the cache afterwards
\* and the requests sent.

\* variant: a cached value is returned, but the upstream is asked all the same
Hit_Dispatching(cached) == [ret |-> cached.value, cache |-> cache, sent |-> <<"refetch">>]

\* if cached: return cached
Hit(cached) == [ret |-> cached.value, cache |-> cache, sent |-> << >>]
Miss(ret, name) == [ret |-> ret, cache |-> cache, sent |-> <<name>>]
Stored(cache_key, parsed, timeout, name) ==
    [ret |-> parsed,
     cache |-> [cache EXCEPT ![cache_key] =
                   [cached |-> TRUE, value |-> parsed, timeout |-> timeout]],
     sent |-> <<name>>]

\* a dict that is missing, None or empty
NoDict == [present |-> FALSE]

METERS_PER_LAT == 111320

\* math.radians and math.cos, at the only latitude whose cosine is rational here
Radians(deg) == CASE deg = Zero -> Zero
Cos(rad) == CASE rad = Zero -> One

RECURSIVE SumLats(_)
SumLats(coords) ==
    IF coords = << >> THEN Zero ELSE RAdd(Head(coords)[2], SumLats(Tail(coords)))

RECURSIVE Shoelace(_, _)
Shoelace(coords_m, i) ==
    IF i > Len(coords_m) THEN Zero
    ELSE LET j == (i % Len(coords_m)) + 1
         IN  RAdd(RSub(RMul(coords_m[i][1], coords_m[j][2]),
                       RMul(coords_m[j][1], coords_m[i][2])),
                  Shoelace(coords_m, i + 1))

\* lines 457-504: shoelace area of the first ring, in square metres
calculate_polygon_area(geometry) ==
    LET coords == geometry.coordinates
        polygon_coords ==
            IF geometry.type = "MultiPolygon"
            THEN (IF coords # << >> /\ coords[1] # << >> THEN coords[1][1] ELSE << >>)
            ELSE IF geometry.type = "Polygon"
            THEN (IF coords # << >> THEN coords[1] ELSE << >>)
            ELSE coords
    IN  IF polygon_coords = << >> \/ Len(polygon_coords) < 3 THEN Zero
        ELSE LET center_lat == RDiv(SumLats(polygon_coords), Int2Rat(Len(polygon_coords)))
                 lat_rad == Radians(center_lat)
                 meters_per_lat == Int2Rat(METERS_PER_LAT)
                 meters_per_lng == RMul(Int2Rat(METERS_PER_LAT), Cos(lat_rad))
                 coords_m == [i \in 1..Len(polygon_coords) |->
                                 <<RMul(polygon_coords[i][1], meters_per_lng),
                                   RMul(polygon_coords[i][2], meters_per_lat)>>]
                 area == Shoelace(coords_m, 1)
             IN  RDiv(Rat(Abs(area.n), area.d), Int2Rat(2))

LAND_CATEGORY_DAE == <<"dae">>      \* '대'
DASH == <<"-">>                     \* '-'

\* lines 599-609: the last character of the jibun that is no digit, '-' or ' '
RECURSIVE LastCategoryChar(_)
LastCategoryChar(jibun) ==
    IF jibun = << >> THEN << >>
    ELSE LET c == jibun[Len(jibun)]
         IN  IF c \notin Digits /\ c # "-" /\ c # " " THEN <<c>>
             ELSE LastCategoryChar(SubSeq(jibun, 1, Len(jibun) - 1))

\* variant: the polygon area is taken as computed, without rounding
CadastralArea_Unrounded(land_char, cadastral) ==
    LET area == IF land_char.present /\ TruthyNum(land_char.lndpclAr)
                THEN land_char.lndpclAr ELSE Zero
    IN  IF area = Zero /\ cadastral.present /\ cadastral.geometry.present
        THEN calculate_polygon_area(cadastral.geometry)
        ELSE area

\* lines 593-597: the landChar area, or else the area of the cadastral polygon
CadastralArea(land_char, cadastral) ==
    LET area == IF land_char.present /\ TruthyNum(land_char.lndpclAr)
                THEN land_char.lndpclAr ELSE Zero
    IN  IF area = Zero /\ cadastral.present /\ cadastral.geometry.present
        THEN RRound(calculate_polygon_area(cadastral.geometry), 2)
        ELSE area

\* lines 555-628: cadastral data of a parcel, cached after a successful fetch
get_cadastral(pnu) ==
    LET cache_key == <<"cadastral", pnu>>
        cached == cache[cache_key]
        src == sources.cadastral
    IN  IF cached # NoEntry THEN Hit(cached)
        ELSE IF ~src.ok
        THEN Miss([success |-> FALSE, error |-> "RequestException"], "cadastral")
        ELSE IF ~src.cadastral.present /\ ~src.landChar.present
        THEN Miss([success |-> FALSE, error |-> "NOT_FOUND"], "cadastral")
        ELSE
        LET cadastral == src.cadastral
            land_char == src.landChar
            jiga0 == IF cadastral.present /\ TruthyNum(cadastral.jiga)
                     THEN cadastral.jiga ELSE Zero
            jiga == IF jiga0 = Zero /\ land_char.present /\ TruthyNum(land_char.pblntfPclnd)
                    THEN land_char.pblntfPclnd ELSE jiga0
            area == CadastralArea(land_char, cadastral)
            category0 == IF land_char.present THEN land_char.lndcgrCodeNm ELSE << >>
            category1 == IF ~TruthyStr(category0) /\ cadastral.present
                            /\ TruthyStr(cadastral.jibun)
                         THEN LastCategoryChar(cadastral.jibun) ELSE category0
            land_category == IF ~TruthyStr(category1) THEN LAND_CATEGORY_DAE ELSE category1
            parsed == [success |-> TRUE,
                       jiga |-> jiga,
                       land_category |-> land_category,
                       area |-> area,
                       ownership |-> IF land_char.present THEN land_char.ownshipDivNm ELSE DASH,
                       land_use_situation |->
                           IF land_char.present THEN land_char.ladUseSittnNm ELSE DASH,
                       terrain_height |->
                           IF land_char.present THEN land_char.tpgrphHgCodeNm ELSE DASH,
                       terrain_shape |->
                           IF land_char.present THEN land_char.tpgrphFrmCodeNm ELSE DASH,
                       road_side |-> IF land_char.present THEN land_char.roadSideCodeNm ELSE DASH,
                       use_zone |-> IF land_char.present THEN land_char.prposArea1Nm ELSE << >>,
                       address |-> IF cadastral.present THEN cadastral.addr ELSE << >>]
        IN  Stored(cache_key, parsed, TTL_PARCEL_INFO, "cadastral")

\* lines 514-553: coordinates and parcel code of an address, cached after an OK answer
geocode(address) ==
    LET cache_key == <<"geocode", address>>
        cached == cache[cache_key]
        src == sources.geocode
    IN  IF cached # NoEntry THEN Hit(cached)
        ELSE IF ~src.ok
        THEN Miss([success |-> FALSE, error |-> "RequestException"], "geocode")
        ELSE IF ~src.status_ok
        THEN Miss([success |-> FALSE, error |-> "address not found"], "geocode")
        ELSE Stored(cache_key,
                    [success |-> TRUE, x |-> src.point.x, y |-> src.point.y,
                     address |-> IF src.refined.text = NoneStr THEN address
                                 ELSE src.refined.text,
                     pnu |-> src.refined.level4LC, sido |-> src.refined.level1,
                     sigungu |-> src.refined.level2, dong |-> src.refined.level4L,
                     jibun |-> src.refined.level5],
                    TTL_GEOCODE, "geocode")

\* lines 672-688: the request ?type=nearby&pnu=..&x=..&y=..&radius=.. and its
\* answer; a failed request answers with empty lists and stores nothing
NearbyFetch(pnu, x, y, radius) ==
    LET src == sources.nearby
    IN  IF ~src.ok
        THEN Miss([success |-> TRUE, buildings |-> << >>, roads |-> << >>], "nearby")
        ELSE LET data == src.within[<<x, y, radius>>]
             IN  Stored(<<"nearby", pnu>>,
                        [success |-> TRUE, buildings |-> data.buildings,
                         roads |-> data.roads],
                        TTL_NEARBY, "nearby")

\* lines 665-688: nearby buildings and roads, cached under the parcel number
get_nearby(pnu, x, y, radius) ==
    LET cache_key == <<"nearby", pnu>>
        cached == cache[cache_key]
    IN  IF cached # NoEntry THEN Hit(cached)
        ELSE NearbyFetch(pnu, x, y, radius)

-----------------------------------------------------------------------------
(* apps/land/services.py: DataGoKrService, VWorldService.get_land_characteristics *)

\* lines 76-78 and 153-155: the item list of a data.go.kr body
ItemsOf(body) == IF body.present THEN body.items ELSE << >>

\* lines 80-109: the entries of the building registry that name a main purpose
Buildings(items) ==
    LET kept == SelectSeq(items, LAMBDA it : TruthyStr(it.mainPurpsCdNm))
    IN  [i \in 1..Len(kept) |->
            [name |-> IF TruthyStr(kept[i].bldNm) THEN kept[i].bldNm ELSE NoneStr,
             main_purpose |-> kept[i].mainPurpsCdNm,
             floors |-> [above |-> kept[i].grndFlrCnt, below |-> kept[i].ugrndFlrCnt]]]

\* lines 33-120: building registry of a parcel; platGbCd 0 is asked first, then 1
get_building_info(pnu) ==
    LET cache_key == <<"building", pnu>>
        cached == cache[cache_key]
        src == sources.building
    IN  IF ~sources.DATAGO_API_KEY
        THEN [ret |-> [success |-> FALSE, error |-> "no API key", buildings |-> << >>],
              cache |-> cache, sent |-> << >>]
        ELSE IF cached # NoEntry THEN Hit(cached)
        ELSE IF ~src.json
        THEN Miss([success |-> FALSE, error |-> "Exception", buildings |-> << >>], "building")
        ELSE LET first == ItemsOf(src.plat0)
                 items == IF first # << >> THEN first ELSE ItemsOf(src.plat1)
                 buildings == Buildings(items)
                 result == [success |-> TRUE, exists |-> Len(buildings) > 0,
                            buildings |-> buildings]
                 stored == Stored(cache_key, result, TTL_BUILDING, "building")
             IN  [stored EXCEPT !.sent = IF first # << >> THEN <<"building">>
                                         ELSE <<"building", "building">>]

\* lines 122-168: land-use regulations of a parcel
get_land_use_regulation(pnu) ==
    LET cache_key == <<"regulation", pnu>>
        cached == cache[cache_key]
        src == sources.regulation
    IN  IF ~sources.DATAGO_API_KEY
        THEN [ret |-> [success |-> FALSE, error |-> "no API key", regulations |-> << >>],
              cache |-> cache, sent |-> << >>]
        ELSE IF cached # NoEntry THEN Hit(cached)
        ELSE IF ~src.json
        THEN Miss([success |-> FALSE, error |-> "Exception", regulations |-> << >>],
                  "regulation")
        ELSE LET items == ItemsOf(src.body)
                 regulations == [i \in 1..Len(items) |->
                                    [zone_name |-> items[i].prpsAreaNm,
                                     restriction_content |-> items[i].rgltContnt,
                                     law_name |-> items[i].statutNm]]
             IN  Stored(cache_key, [success |-> TRUE, regulations |-> regulations],
                        TTL_REGULATION, "regulation")

\* lines 218-269: land characteristics from data.go.kr
datago_get_land_characteristics(pnu) ==
    LET cache_key == <<"land_char", pnu>>
        cached == cache[cache_key]
        src == sources.datago
    IN  IF ~sources.DATAGO_API_KEY
        THEN [ret |-> [success |-> FALSE, error |-> "no API key"],
              cache |-> cache, sent |-> << >>]
        ELSE IF cached # NoEntry THEN Hit(cached)
        ELSE IF ~src.json
        THEN Miss([success |-> FALSE, error |-> "Exception"], "land_char")
        ELSE IF ~src.item.present
        THEN Miss([success |-> FALSE, error |-> "land not found"], "land_char")
        ELSE LET item == src.item
             IN  Stored(cache_key,
                        [success |-> TRUE,
                         area |-> IF TruthyNum(item.lndpclAr) THEN item.lndpclAr ELSE Zero,
                         land_category |-> item.lndcgrCodeNm,
                         jiga |-> IF TruthyNum(item.pblntfPclnd) THEN item.pblntfPclnd
                                  ELSE Zero,
                         use_zone |-> item.prposArea1Nm],
                        TTL_LAND_CHAR, "land_char")

\* lines 767-774: the last character of the jibun that is no digit or '-'
RECURSIVE LastNonLotChar(_)
LastNonLotChar(jibun) ==
    IF jibun = << >> THEN << >>
    ELSE LET c == jibun[Len(jibun)]
         IN  IF c \notin Digits /\ c # "-" THEN <<c>>
             ELSE LastNonLotChar(SubSeq(jibun, 1, Len(jibun) - 1))

\* lines 715-790: land characteristics from the VWorld continuous cadastral map
vworld_get_land_characteristics(pnu) ==
    LET cache_key == <<"vworld_land", pnu>>
        cached == cache[cache_key]
        src == sources.vworld
    IN  IF ~sources.VWORLD_API_KEY
        THEN [ret |-> [success |-> FALSE, error |-> "no API key"],
              cache |-> cache, sent |-> << >>]
        ELSE IF cached # NoEntry THEN Hit(cached)
        ELSE IF ~src.json
        THEN Miss([success |-> FALSE, error |-> "Exception"], "vworld_land")
        ELSE IF ~src.status_ok \/ ~src.feature.present
        THEN Miss([success |-> FALSE, error |-> "land not found"], "vworld_land")
        ELSE LET props == src.feature.properties
                 area == calculate_polygon_area(src.feature.geometry)
                 land_category == IF TruthyStr(props.jibun) THEN LastNonLotChar(props.jibun)
                                  ELSE << >>
             IN  Stored(cache_key,
                        [success |-> TRUE,
                         area |-> RRound(area, 2),
                         land_category |-> IF TruthyStr(land_category) THEN land_category
                                           ELSE LAND_CATEGORY_DAE,
                         jiga |-> IF TruthyNum(props.jiga) THEN props.jiga ELSE Zero,
                         use_zone |-> << >>,
                         address |-> props.addr],
                        TTL_LAND_CHAR, "vworld_land")

-----------------------------------------------------------------------------
(* apps/land/services.py: LandService.get_land_detail, LandService.get_land_analysis *)

\* the cache after the calls rs were made one after another from the current cache
CacheAfter(rs) ==
    [k \in DOMAIN cache |->
        LET changed == {i \in 1..Len(rs) : rs[i].cache[k] # cache[k]}
        IN  IF changed = {} THEN cache[k]
            ELSE rs[CHOOSE i \in changed : \A j \in changed : j <= i].cache[k]]

RECURSIVE SentBy(_)
SentBy(rs) == IF rs = << >> THEN << >> ELSE Head(rs).sent \o SentBy(Tail(rs))

\* a source that was not asked
NotCalled == [ret |-> [success |-> FALSE, called |-> FALSE], cache |-> cache, sent |-> << >>]

\* d.get(key) of a result dict that may lack the key
GetNum(d, key) == IF key \in DOMAIN d THEN d[key] ELSE NoneNum
GetStr(d, key) == IF key \in DOMAIN d THEN d[key] ELSE NoneStr

\* v and v > 0
Positive(v) == TruthyNum(v) /\ v.n > 0

\* lines 1574-1583: the fields as the cadastral source gives them
CadastralStage(c) ==
    [use_zone |-> IF c.success /\ TruthyStr(c.use_zone) THEN c.use_zone ELSE << >>,
     parcel_area |-> IF c.success /\ TruthyNum(c.area) THEN c.area ELSE Zero,
     jiga |-> IF c.success /\ TruthyNum(c.jiga) THEN c.jiga ELSE Zero,
     address_jibun |-> << >>]

\* lines 1589-1601: the fields after the VWorld answer v
VWorldStage(st, v) ==
    [use_zone |-> IF v.success /\ TruthyStr(v.use_zone) THEN v.use_zone ELSE st.use_zone,
     parcel_area |-> IF v.success /\ Positive(v.area) THEN v.area ELSE st.parcel_area,
     jiga |-> IF v.success /\ Positive(v.jiga) THEN v.jiga ELSE st.jiga,
     address_jibun |-> IF v.success /\ TruthyStr(v.address) THEN v.address
                       ELSE st.address_jibun]

\* lines 1606-1612: the fields after the data.go.kr answer d
DatagoStage(st, d) ==
    [use_zone |-> IF d.success /\ TruthyStr(d.use_zone) /\ ~TruthyStr(st.use_zone)
                  THEN d.use_zone ELSE st.use_zone,
     parcel_area |-> IF d.success /\ Positive(d.area) THEN d.area ELSE st.parcel_area,
     jiga |-> IF d.success /\ Positive(d.jiga) /\ st.jiga = Zero THEN d.jiga ELSE st.jiga,
     address_jibun |-> st.address_jibun]

\* variant: the row is stored whatever the coordinates and the resolved area are
DetailResult_AlwaysStore(pnu, x, y, st, calls) ==
    LET land_use == calls[2].ret
        building_info == calls[5].ret
        use_zone == IF ~TruthyStr(st.use_zone) /\ land_use.success
                    THEN land_use.primary_zone ELSE st.use_zone
        land_data == [pnu |-> pnu,
                      address_jibun |-> st.address_jibun,
                      parcel_area |-> st.parcel_area,
                      use_zone |-> use_zone,
                      use_zones |-> IF land_use.success THEN land_use.zones ELSE << >>,
                      official_land_price |-> st.jiga,
                      latitude |-> y,
                      longitude |-> x,
                      building |->
                         [exists |-> IF "exists" \in DOMAIN building_info
                                     THEN building_info.exists ELSE FALSE,
                          buildings |-> building_info.buildings]]
    IN  [ret |-> [success |-> TRUE, data |-> land_data, cached |-> FALSE],
         cache |-> CacheAfter(calls), sent |-> SentBy(calls),
         landCache |->
             [landCache EXCEPT ![pnu] =
                 [exists |-> TRUE,
                  address_jibun |-> st.address_jibun,
                  parcel_area |-> st.parcel_area,
                  use_zone |-> use_zone,
                  official_land_price |-> IntTrunc(st.jiga),
                  latitude |-> y,
                  longitude |-> x]],
         locals |-> [path |-> "resolved", cadastral |-> calls[1].ret,
                     vworld |-> calls[3].ret, datago |-> calls[4].ret,
                     land_use |-> land_use]]

\* lines 1614-1660: the zoning plan's zone, the result and the LandCache row
DetailResult(pnu, x, y, st, calls) ==
    LET land_use == calls[2].ret
        building_info == calls[5].ret
        use_zone == IF ~TruthyStr(st.use_zone) /\ land_use.success
                    THEN land_use.primary_zone ELSE st.use_zone
        land_data == [pnu |-> pnu,
                      address_jibun |-> st.address_jibun,
                      parcel_area |-> st.parcel_area,
                      use_zone |-> use_zone,
                      use_zones |-> IF land_use.success THEN land_use.zones ELSE << >>,
                      official_land_price |-> st.jiga,
                      latitude |-> y,
                      longitude |-> x,
                      building |->
                         [exists |-> IF "exists" \in DOMAIN building_info
                                     THEN building_info.exists ELSE FALSE,
                          buildings |-> building_info.buildings]]
    IN  [ret |-> [success |-> TRUE, data |-> land_data, cached |-> FALSE],
         cache |-> CacheAfter(calls), sent |-> SentBy(calls),
         landCache |->
             IF TruthyNum(x) /\ TruthyNum(y) /\ st.parcel_area.n > 0
             THEN [landCache EXCEPT ![pnu] =
                      [exists |-> TRUE,
                       address_jibun |-> st.address_jibun,
                       parcel_area |-> st.parcel_area,
                       use_zone |-> use_zone,
                       official_land_price |-> IntTrunc(st.jiga),
                       latitude |-> y,
                       longitude |-> x]]
             ELSE landCache,
         locals |-> [path |-> "resolved", cadastral |-> calls[1].ret,
                     vworld |-> calls[3].ret, datago |-> calls[4].ret,
                     land_use |-> land_use]]

\* lines 1603-1612: data.go.kr is asked only while the area is still unknown
ResolveAfterVWorld(pnu, x, y, st, cadastral, land_use, vworld, building_info) ==
    LET datago == IF st.parcel_area = Zero THEN datago_get_land_characteristics(pnu)
                  ELSE NotCalled
    IN  DetailResult(pnu, x, y, DatagoStage(st, datago.ret),
                     <<cadastral, land_use, vworld, datago, building_info>>)

\* lines 1569-1601: the VWorld source is asked only while the area is unknown
ResolveDetail(pnu, x, y, cadastral, land_use, building_info) ==
    LET st == CadastralStage(cadastral.ret)
        vworld == IF st.parcel_area = Zero THEN vworld_get_land_characteristics(pnu)
                  ELSE NotCalled
    IN  ResolveAfterVWorld(pnu, x, y, VWorldStage(st, vworld.ret),
                           cadastral, land_use, vworld, building_info)

\* lines 1533-1662.  The value is the returned dict, the cache and the LandCache
\* table afterwards, the requests sent and the results of the sources asked.
get_land_detail(pnu, x, y) ==
    LET row == landCache[pnu]
    IN  IF pnu # "" /\ row.exists /\ Positive(row.parcel_area)
        THEN LET building_info == get_building_info(pnu)
                 land_use == get_land_use(pnu)
                 calls == <<building_info, land_use>>
             IN  [ret |-> [success |-> TRUE,
                           data |-> [pnu |-> pnu,
                                     address_jibun |-> row.address_jibun,
                                     parcel_area |-> row.parcel_area,
                                     use_zone |-> row.use_zone,
                                     use_zones |-> IF land_use.ret.success
                                                   THEN land_use.ret.zones ELSE << >>,
                                     official_land_price |-> row.official_land_price,
                                     latitude |-> row.latitude,
                                     longitude |-> row.longitude,
                                     building |->
                                        [exists |-> IF "exists" \in DOMAIN building_info.ret
                                                    THEN building_info.ret.exists ELSE FALSE,
                                         buildings |-> building_info.ret.buildings]],
                           cached |-> TRUE],
                  cache |-> CacheAfter(calls), sent |-> SentBy(calls),
                  landCache |-> landCache,
                  locals |-> [path |-> "cached"]]
        ELSE IF pnu = ""
        THEN [ret |-> [success |-> FALSE, error |-> "NOT_FOUND"], cache |-> cache,
              sent |-> << >>, landCache |-> landCache, locals |-> [path |-> "none"]]
        ELSE ResolveDetail(pnu, x, y, get_cadastral(pnu), get_land_use(pnu),
                           get_building_info(pnu))

MARK_JEJU == <<"je", "ju">>        \* '제주'
JEJU_PREFIX == <<"je", "ju", "teuk", "byeol", "ja", "chi", "do", " ">>
DONG_SUFFIX == "dong"              \* '동'

\* lines 1454-1456: addresses that do not name Jeju get the province prefixed
FullAddress(address) ==
    IF ~Contains(MARK_JEJU, address) THEN JEJU_PREFIX \o address ELSE address

\* variant: the zoning plan is asked before the cadastral source
SourceQueries_LandUseFirst(pnu) ==
    [cadastral |-> get_cadastral(pnu),
     land_use |-> get_land_use(pnu),
     building_info |-> get_building_info(pnu),
     regulation_info |-> get_land_use_regulation(pnu),
     order |-> <<"land_use", "cadastral", "building_info", "regulation_info">>]

\* lines 1470-1476: the four source queries of an analysis, in the order they are made
SourceQueries(pnu) ==
    [cadastral |-> get_cadastral(pnu),
     land_use |-> get_land_use(pnu),
     building_info |-> get_building_info(pnu),
     regulation_info |-> get_land_use_regulation(pnu),
     order |-> <<"cadastral", "land_use", "building_info", "regulation_info">>]

\* variant: the zoning plan takes precedence over the cadastral zone
PrimaryZone_PlanFirst(cadastral, land_use, dong) ==
    LET explicit == GetStr(cadastral, "use_zone")
        listed == GetStr(land_use, "primary_zone")
        zone == IF TruthyStr(listed) THEN listed
                ELSE IF TruthyStr(explicit) THEN explicit ELSE << >>
    IN  IF TruthyStr(zone) THEN zone
        ELSE IF dong # << >> /\ dong[Len(dong)] = DONG_SUFFIX THEN ZONE_RES_GEN_2
        ELSE ZONE_MGMT_PLANNED

\* lines 1478-1484: the use zone an analysis works with
PrimaryZone(cadastral, land_use, dong) ==
    LET explicit == GetStr(cadastral, "use_zone")
        listed == GetStr(land_use, "primary_zone")
        zone == IF TruthyStr(explicit) THEN explicit
                ELSE IF listed # NoneStr THEN listed ELSE << >>
    IN  IF TruthyStr(zone) THEN zone
        ELSE IF dong # << >> /\ dong[Len(dong)] = DONG_SUFFIX THEN ZONE_RES_GEN_2
        ELSE ZONE_MGMT_PLANNED

\* d.get(key, default)
GetOr(d, key, default) == IF key \in DOMAIN d THEN d[key] ELSE default

\* variant: the cadastral fields are copied without defaults
LandCharOf_NoDefaults(cadastral) ==
    [land_category |-> GetStr(cadastral, "land_category"),
     area |-> GetNum(cadastral, "area"),
     official_land_price |-> GetNum(cadastral, "jiga"),
     ownership |-> GetStr(cadastral, "ownership"),
     land_use_situation |-> GetStr(cadastral, "land_use_situation"),
     terrain_height |-> GetStr(cadastral, "terrain_height"),
     terrain_shape |-> GetStr(cadastral, "terrain_shape"),
     road_side |-> GetStr(cadastral, "road_side")]

\* lines 1509-1518: the land_char section of an analysis
LandCharOf(cadastral) ==
    [land_category |-> GetOr(cadastral, "land_category", LAND_CATEGORY_DAE),
     area |-> GetOr(cadastral, "area", Zero),
     official_land_price |-> GetOr(cadastral, "jiga", Zero),
     ownership |-> GetOr(cadastral, "ownership", DASH),
     land_use_situation |-> GetOr(cadastral, "land_use_situation", DASH),
     terrain_height |-> GetOr(cadastral, "terrain_height", DASH),
     terrain_shape |-> GetOr(cadastral, "terrain_shape", DASH),
     road_side |-> GetOr(cadastral, "road_side", DASH)]

RECURSIVE InOrder(_, _)
InOrder(q, order) ==
    IF order = << >> THEN << >> ELSE <<q[Head(order)]>> \o InOrder(q, Tail(order))

\* lines 1451-1531.  The value is the returned dict, the cache afterwards, the
\* requests sent and the results of the sources asked.
get_land_analysis(address) ==
    LET full_address == FullAddress(address)
        geo == geocode(full_address)
        g == geo.ret
    IN  IF ~g.success
        THEN [ret |-> [success |-> FALSE, error |-> g.error], cache |-> geo.cache,
              sent |-> geo.sent, locals |-> [reached |-> "geocode", geocode |-> g]]
        ELSE IF g.pnu = "" \/ ~TruthyNum(g.x) \/ ~TruthyNum(g.y)
        THEN [ret |-> [success |-> FALSE, error |-> "no coordinates or PNU"],
              cache |-> geo.cache, sent |-> geo.sent,
              locals |-> [reached |-> "pnu", geocode |-> g]]
        ELSE
        LET pnu == g.pnu
            q == SourceQueries(pnu)
            calls == <<geo>> \o InOrder(q, q.order)
            cadastral == q.cadastral.ret
            land_use == q.land_use.ret
            building_info == q.building_info.ret
            regulation_info == q.regulation_info.ret
            primary_zone == PrimaryZone(cadastral, land_use, g.dong)
            zones == GetOr(land_use, "zones", << >>)
            is_settlement == HasSettlementZone(zones)
            limits == get_building_limits(primary_zone, is_settlement)
        IN  [ret |-> [success |-> TRUE,
                      geocode |-> [address |-> g.address, pnu |-> pnu,
                                   coordinates |-> [x |-> g.x, y |-> g.y],
                                   sido |-> g.sido, sigungu |-> g.sigungu,
                                   dong |-> g.dong, jibun |-> g.jibun],
                      land_char |-> LandCharOf(cadastral),
                      land_use |-> zones,
                      building |-> [exists |-> GetOr(building_info, "exists", FALSE),
                                    buildings |-> GetOr(building_info, "buildings", << >>)],
                      regulations |-> GetOr(regulation_info, "regulations", << >>),
                      standards |-> [use_zone |-> primary_zone,
                                     coverage |-> limits.coverage,
                                     far |-> limits.far,
                                     height_limit |-> limits.height_limit,
                                     note |-> limits.note]],
             cache |-> CacheAfter(calls), sent |-> SentBy(calls),
             locals |-> [reached |-> "merge", geocode |-> g, cadastral |-> cadastral,
                         land_use |-> land_use, building_info |-> building_info,
                         regulation_info |-> regulation_info]]

-----------------------------------------------------------------------------
(* apps/mass/serializers.py, apps/mass/views.py *)

NoSetbacks == [given |-> FALSE]
Setbacks(front, back, left, right) ==
    [given |-> TRUE, front |-> front, back |-> back, left |-> left, right |-> right]

\* views.py lines 33-38
DEFAULT_SETBACKS == Setbacks(Int2Rat(3), Int2Rat(2), Rat(3, 2), Rat(3, 2))

\* serializers.py lines 5-16: target_floors in 1..50, every setback >= 0
is_valid(target_floors, setbacks) ==
    /\ target_floors >= 1
    /\ target_floors <= 50
    /\ setbacks.given =>
          /\ setbacks.front.n >= 0
          /\ setbacks.back.n >= 0
          /\ setbacks.left.n >= 0
          /\ setbacks.right.n >= 0

NoCalc == [result |-> [success |-> FALSE, error |-> "NOT_CALLED"], locals |-> [reached |-> "none"]]
NoResponse == [status |-> 0]
NoRequest == [op |-> "none"]

\* no request is inside a rate-limited view
NoLimiter == [disabled |-> FALSE, calls |-> << >>]

\* the parcel side is rational, or nothing is subtracted from it
Representable(land, setbacks) ==
    IF ~land.exists THEN TRUE
    ELSE IF IsRational(Sqrt(IF TruthyNum(land.parcel_area) THEN land.parcel_area
                            ELSE Int2Rat(500)))
    THEN TRUE
    ELSE /\ setbacks.front = Zero /\ setbacks.back = Zero
         /\ setbacks.left = Zero /\ setbacks.right = Zero

-----------------------------------------------------------------------------
(* Bounds and input sets *)

PNUs == {"p1", "p2"}
Addresses == {<<"je", "ju", "si", " ", "a">>, <<"a">>}
CacheKinds == {"landuse", "cadastral", "nearby", "building", "regulation", "land_char",
               "vworld_land"}
CacheKeys ==
    {<<kind, p>> : kind \in CacheKinds, p \in PNUs}
        \cup {<<"geocode", a>> : a \in Addresses \cup {JEJU_PREFIX \o b : b \in Addresses}}

MaxStudies == 1       \* rows the MassStudy table may hold
MaxFloors == 6        \* largest target_floors requested
MinSideHalf == 6      \* parcel side, in half metres
MaxSideHalf == 24

MaxJibunLen == 5
JibunChars == {SAN, "7", "0", "-", " "}
Jibuns == {NoneStr} \cup UNION {[1..n -> JibunChars] : n \in 0..MaxJibunLen}
LEVEL4LC == <<"5", "0", "1", "1", "0", "1", "0", "1", "0", "0">>
Level4LCs == {NoneStr, << >>, LEVEL4LC}

ZONE_UNKNOWN == <<"gae", "bal", "je", "han", "gu", "yeok">>                       \* 개발제한구역
ZONE_UNKNOWN_GREEN == <<"bo", "jeon", "nok", "ji", "ji", "yeok">>                 \* 보전녹지지역
ZONE_UNKNOWN_RES == <<"ju", "geo", "gae", "bal", "jin", "heung", "ji", "gu">>     \* 주거개발진흥지구
ZONE_SETTLEMENT == <<"ja", "yeon", "chwi", "rak", "ji", "gu">>                    \* 자연취락지구

AllZones ==
    DOMAIN JEJU_BUILDING_LIMITS \cup {<< >>, ZONE_UNKNOWN, ZONE_UNKNOWN_GREEN, ZONE_UNKNOWN_RES}

SolveAreas ==
    {NoneNum, Zero} \cup {Rat(k * k, 4) : k \in MinSideHalf..MaxSideHalf}

SolveSetbacks ==
    { Setbacks(Zero, Zero, Zero, Zero),
      DEFAULT_SETBACKS,
      Setbacks(Int2Rat(1), Int2Rat(2), Zero, Zero),
      Setbacks(Int2Rat(3), Rat(9, 4), Rat(1, 4), Zero),
      Setbacks(Int2Rat(1), Int2Rat(5), Rat(3, 2), Rat(3, 2)),
      Setbacks(Int2Rat(2), Int2Rat(3), Int2Rat(4), Int2Rat(1)),
      Setbacks(Int2Rat(4), Int2Rat(4), Int2Rat(1), Int2Rat(1)) }

ViewAreas == {NoneNum, Zero, Int2Rat(100), Rat(441, 4)}
ViewZones == {<< >>, ZONE_RES_EXCL_1, ZONE_GREEN_NATURAL, ZONE_UNKNOWN}
ViewFloors == {0, 3, MaxFloors}
ViewSetbacks ==
    { NoSetbacks,
      Setbacks(Zero, Zero, Zero, Zero),
      Setbacks(Int2Rat(3), Int2Rat(2), Int2Rat(6), Int2Rat(4)) }

LandUseAnswers ==
    { [ok |-> FALSE],
      [ok |-> TRUE, names |-> <<ZONE_GREEN_NATURAL, NoneStr>>],
      [ok |-> TRUE, names |-> <<ZONE_GREEN_NATURAL, ZONE_SETTLEMENT>>] }

\* answers of the upstream sources
LandChar(lndpclAr, prposArea1Nm, pblntfPclnd, lndcgrCodeNm) ==
    [present |-> TRUE, lndpclAr |-> lndpclAr, prposArea1Nm |-> prposArea1Nm,
     pblntfPclnd |-> pblntfPclnd, lndcgrCodeNm |-> lndcgrCodeNm,
     ownshipDivNm |-> <<"gae", "in">>, ladUseSittnNm |-> <<"dan", "dok">>,
     tpgrphHgCodeNm |-> <<"pyeong", "ji">>, tpgrphFrmCodeNm |-> <<"jeong", "bang">>,
     roadSideCodeNm |-> <<"so", "ro">>]

NoGeometry == [present |-> FALSE]

\* a diamond around (0, 0) with half-diagonals w and h degrees, first point repeated
Diamond(w, h) ==
    [present |-> TRUE, type |-> "Polygon",
     coordinates |-> << << <<Zero, Zero>>, <<w, h>>, <<RAdd(w, w), Zero>>, <<w, RNeg(h)>>,
                           <<Zero, Zero>> >> >>]

\* a ring of two points, which has no area
Degenerate ==
    [present |-> TRUE, type |-> "Polygon",
     coordinates |-> << << <<Zero, Zero>>, <<Rat(1, 10000), Zero>> >> >>]

Cadastral(jiga, geometry, jibun) ==
    [present |-> TRUE, jiga |-> jiga, geometry |-> geometry, jibun |-> jibun,
     addr |-> <<"a", " ">> \o jibun]

JIBUN_FIELD == <<"2", "9", "0", "-", "3", "4", "jeon">>      \* '290-34전'

CadastralAnswers ==
    { [ok |-> FALSE],
      [ok |-> TRUE, cadastral |-> NoDict, landChar |-> NoDict],
      [ok |-> TRUE, cadastral |-> Cadastral(Int2Rat(1000), Diamond(Rat(1, 10000), Rat(1, 10000)),
                                            JIBUN_FIELD),
                    landChar |-> LandChar(Int2Rat(100), ZONE_RES_GEN_1, Int2Rat(1100),
                                          <<"dae">>)],
      [ok |-> TRUE, cadastral |-> Cadastral(Int2Rat(1000), Diamond(Rat(1, 10000), Rat(1, 10000)),
                                            JIBUN_FIELD),
                    landChar |-> LandChar(Zero, ZONE_RES_GEN_1, Zero, << >>)],
      [ok |-> TRUE, cadastral |-> Cadastral(Int2Rat(1000), NoGeometry, JIBUN_FIELD),
                    landChar |-> NoDict],
      [ok |-> TRUE, cadastral |-> Cadastral(NoneNum, Degenerate, << >>),
                    landChar |-> LandChar(NoneNum, << >>, NoneNum, << >>)] }

VWorldAnswers ==
    { [json |-> FALSE],
      [json |-> TRUE, status_ok |-> FALSE, feature |-> NoDict],
      [json |-> TRUE, status_ok |-> TRUE,
       feature |-> [present |-> TRUE,
                    properties |-> [jiga |-> Int2Rat(2000), jibun |-> JIBUN_FIELD,
                                    addr |-> <<"v", " ">> \o JIBUN_FIELD],
                    geometry |-> Diamond(Rat(1, 10000), Rat(1, 20000))]],
      [json |-> TRUE, status_ok |-> TRUE,
       feature |-> [present |-> TRUE,
                    properties |-> [jiga |-> Int2Rat(2000), jibun |-> << >>, addr |-> << >>],
                    geometry |-> Degenerate]] }

DatagoAnswers ==
    { [json |-> FALSE],
      [json |-> TRUE, item |-> NoDict],
      [json |-> TRUE, item |-> LandChar(Int2Rat(150), ZONE_MGMT_PLANNED, Int2Rat(3000),
                                        <<"jeon">>)],
      [json |-> TRUE, item |-> LandChar(Zero, ZONE_MGMT_PLANNED, Int2Rat(3000), <<"jeon">>)] }

RegistryItem(mainPurpsCdNm) ==
    [mainPurpsCdNm |-> mainPurpsCdNm, bldNm |-> << >>, grndFlrCnt |-> 2, ugrndFlrCnt |-> 0]

Body(items) == [present |-> TRUE, items |-> items]

BuildingAnswers ==
    { [json |-> FALSE],
      [json |-> TRUE,
       plat0 |-> Body(<<RegistryItem(<<"ju", "taek">>), RegistryItem(<< >>)>>),
       plat1 |-> Body(<< >>)],
      [json |-> TRUE, plat0 |-> Body(<< >>),
       plat1 |-> Body(<<RegistryItem(<<"chang", "go">>)>>)],
      [json |-> TRUE, plat0 |-> NoDict, plat1 |-> NoDict] }

RegulationAnswers ==
    { [json |-> FALSE],
      [json |-> TRUE,
       body |-> Body(<<[prpsAreaNm |-> ZONE_GREEN_NATURAL, rgltContnt |-> <<"je", "han">>,
                        statutNm |-> <<"beop">>]>>)] }

COORD_X == Rat(253, 2)
COORD_Y == Rat(67, 2)

\* the points and radii (in metres) asked about, and what lies within each
NearbyQueries == {<<COORD_X, COORD_Y, 100>>, <<COORD_X, COORD_Y, 200>>, <<Zero, Zero, 100>>}
NearbyAnswers ==
    { [ok |-> FALSE],
      [ok |-> TRUE,
       within |-> [q \in NearbyQueries |->
                      IF q[1] = Zero THEN [buildings |-> << >>, roads |-> << >>]
                      ELSE IF q[3] >= 200
                      THEN [buildings |-> <<"b1", "b2">>, roads |-> <<"r1">>]
                      ELSE [buildings |-> <<"b1">>, roads |-> <<"r1">>]]] }

-----------------------------------------------------------------------------
(* Spec: the mass-calculation view and the regulation lookup over one stored parcel *)

Init ==
    /\ \E area \in ViewAreas, zone \in ViewZones, present \in BOOLEAN :
          landCache = [p \in PNUs |->
                          IF p = "p1" /\ present THEN LandRow(area, zone) ELSE NoRow]
    /\ \E a \in LandUseAnswers : landUseSrc = [p \in PNUs |-> a]
    /\ sources = NoSources
    /\ dispatched = << >>
    /\ cache = [k \in CacheKeys |-> NoEntry]
    /\ massStudies = << >>
    /\ limiter = NoLimiter
    /\ request = NoRequest
    /\ calc = NoCalc
    /\ response = NoResponse

\* views.py lines 19-88: MassCalculateView.post
MassCalculatePost(pnu, target_floors, setbacksArg) ==
    /\ Len(massStudies) < MaxStudies
    /\ request' = [op |-> "mass_calculate", pnu |-> pnu, target_floors |-> target_floors,
                   setbacks |-> setbacksArg]
    /\ UNCHANGED <<landCache, landUseSrc, sources, cache, limiter>>
    /\ dispatched' = << >>
    /\ IF ~is_valid(target_floors, setbacksArg)
       THEN /\ response' = [status |-> 400,
                            body |-> [success |-> FALSE, error |-> "VALIDATION_ERROR"]]
            /\ calc' = NoCalc
            /\ UNCHANGED massStudies
       ELSE LET setbacks == IF setbacksArg.given THEN setbacksArg ELSE DEFAULT_SETBACKS
                land == GetLand(pnu)
            IN  /\ Representable(land, setbacks)
                /\ calc' = calculate(land, target_floors, setbacks)
                /\ LET result == calc'.result
                   IN  IF ~result.success
                       THEN /\ response' =
                                  [status |-> 400,
                                   body |-> [success |-> FALSE, error |-> result.error,
                                             message |-> IF "message" \in DOMAIN result
                                                         THEN result.message
                                                         ELSE "mass calculation failed"]]
                            /\ UNCHANGED massStudies
                       ELSE /\ massStudies' = Append(massStudies,
                                    [id |-> Len(massStudies) + 1, pnu |-> pnu,
                                     target_floors |-> target_floors,
                                     setback_front |-> setbacks.front,
                                     setback_back |-> setbacks.back,
                                     setback_left |-> setbacks.left,
                                     setback_right |-> setbacks.right,
                                     building_area |-> result.building_area,
                                     total_floor_area |-> result.total_floor_area,
                                     coverage_ratio |-> result.coverage_ratio,
                                     far_ratio |-> result.far_ratio,
                                     height |-> result.height,
                                     coverage_ok |-> result.legal_check.coverage_ok,
                                     far_ok |-> result.legal_check.far_ok,
                                     height_ok |-> result.legal_check.height_ok,
                                     setback_ok |-> result.legal_check.setback_ok,
                                     geometry_data |-> result.geometry])
                            /\ response' =
                                  [status |-> 201,
                                   body |-> [success |-> TRUE,
                                             data |-> [id |-> Len(massStudies) + 1, pnu |-> pnu,
                                                       building_area |-> result.building_area,
                                                       total_floor_area |-> result.total_floor_area,
                                                       coverage_ratio |-> result.coverage_ratio,
                                                       far_ratio |-> result.far_ratio,
                                                       floors |-> result.floors,
                                                       height |-> result.height,
                                                       legal_check |-> result.legal_check,
                                                       legal_limits |-> result.legal_limits]]]

\* land/services.py lines 1664-1707 called for a parcel
GetRegulation(pnu) ==
    LET r == get_regulation(pnu)
    IN  /\ request' = [op |-> "get_regulation", pnu |-> pnu]
        /\ response' = r.ret
        /\ cache' = r.cache
        /\ calc' = NoCalc
        /\ dispatched' = r.sent
        /\ UNCHANGED <<landCache, landUseSrc, sources, massStudies, limiter>>

Next ==
    \/ \E pnu \in PNUs, f \in ViewFloors, sb \in ViewSetbacks : MassCalculatePost(pnu, f, sb)
    \/ \E pnu \in PNUs : GetRegulation(pnu)

Spec == Init /\ [][Next]_vars

-----------------------------------------------------------------------------
(* SpecSolve: MassCalculationService.calculate applied to one parcel and one design *)

InitSolve ==
    /\ \E area \in SolveAreas, zone \in AllZones :
          landCache = [p \in PNUs |-> IF p = "p1" THEN LandRow(area, zone) ELSE NoRow]
    /\ \E f \in 1..MaxFloors, sb \in SolveSetbacks :
          request = [op |-> "calculate", pnu |-> "p1", target_floors |-> f, setbacks |-> sb]
    /\ Representable(landCache["p1"], request.setbacks)
    /\ landUseSrc = [p \in PNUs |-> [ok |-> FALSE]]
    /\ sources = NoSources
    /\ dispatched = << >>
    /\ cache = [k \in CacheKeys |-> NoEntry]
    /\ massStudies = << >>
    /\ limiter = NoLimiter
    /\ calc = NoCalc
    /\ response = NoResponse

\* mass/services.py lines 9-129: MassCalculationService(pnu).calculate(...)
ServiceCalculate ==
    /\ calc = NoCalc
    /\ calc' = calculate(GetLand(request.pnu), request.target_floors, request.setbacks)
    /\ response' = calc'.result
    /\ UNCHANGED <<landCache, landUseSrc, sources, dispatched, cache, massStudies, limiter, request>>

NextSolve == ServiceCalculate

SpecSolve == InitSolve /\ [][NextSolve]_vars

-----------------------------------------------------------------------------
(* SpecRules: the pure functions of apps/core/constants.py applied to one input *)

RuleHeights ==
    {Rat(k, 100) : k \in {0, 899, 900, 901, 1000}} \cup {Int2Rat(3 * f) : f \in 0..MaxFloors}

InitRules ==
    /\ \E z \in AllZones \cup {ZONE_SETTLEMENT}, s \in BOOLEAN, h \in RuleHeights :
          request = [op |-> "rules", use_zone |-> z, is_settlement |-> s, height |-> h]
    /\ response = NoResponse
    /\ landCache = [p \in PNUs |-> NoRow]
    /\ landUseSrc = [p \in PNUs |-> [ok |-> FALSE]]
    /\ sources = NoSources
    /\ dispatched = << >>
    /\ cache = [k \in CacheKeys |-> NoEntry]
    /\ massStudies = << >>
    /\ limiter = NoLimiter
    /\ calc = NoCalc

CallGetBuildingLimits ==
    /\ response' = [fn |-> "get_building_limits",
                    ret |-> get_building_limits(request.use_zone, request.is_settlement)]
    /\ UNCHANGED <<landCache, landUseSrc, sources, dispatched, cache, massStudies, limiter, request, calc>>

CallNorthSetback ==
    /\ response' = [fn |-> "calculate_north_setback",
                    ret |-> calculate_north_setback(request.height, request.use_zone)]
    /\ UNCHANGED <<landCache, landUseSrc, sources, dispatched, cache, massStudies, limiter, request, calc>>

\* the allowed height for the distance the previous call returned
CallHeightFromSetback ==
    /\ response # NoResponse
    /\ response.fn = "calculate_north_setback"
    /\ response' = [fn |-> "get_height_limit_from_setback",
                    setback_distance |-> response.ret,
                    ret |-> get_height_limit_from_setback(response.ret, request.use_zone)]
    /\ UNCHANGED <<landCache, landUseSrc, sources, dispatched, cache, massStudies, limiter, request, calc>>

NextRules == CallGetBuildingLimits \/ CallNorthSetback \/ CallHeightFromSetback

SpecRules == InitRules /\ [][NextRules]_vars

-----------------------------------------------------------------------------
(* SpecPnu: _build_pnu applied to one code and one jibun, and the slicing of its result *)

InitPnu ==
    /\ \E c \in Level4LCs, j \in Jibuns :
          request = [op |-> "pnu", level4LC |-> c, jibun |-> j]
    /\ response = NoResponse
    /\ landCache = [p \in PNUs |-> NoRow]
    /\ landUseSrc = [p \in PNUs |-> [ok |-> FALSE]]
    /\ sources = NoSources
    /\ dispatched = << >>
    /\ cache = [k \in CacheKeys |-> NoEntry]
    /\ massStudies = << >>
    /\ limiter = NoLimiter
    /\ calc = NoCalc

BuildPnu ==
    /\ response = NoResponse
    /\ response' = [fn |-> "_build_pnu", ret |-> build_pnu(request.level4LC, request.jibun)]
    /\ UNCHANGED <<landCache, landUseSrc, sources, dispatched, cache, massStudies, limiter, request, calc>>

\* get_building_info slices the parcel identifier it is given
DecodePnu ==
    /\ response # NoResponse
    /\ response.fn = "_build_pnu"
    /\ response.ret # << >>
    /\ response' = [fn |-> "get_building_info", pnu |-> response.ret,
                    ret |-> decode_pnu(response.ret)]
    /\ UNCHANGED <<landCache, landUseSrc, sources, dispatched, cache, massStudies, limiter, request, calc>>

NextPnu == BuildPnu \/ DecodePnu

SpecPnu == InitPnu /\ [][NextPnu]_vars

-----------------------------------------------------------------------------
(* SpecDetail: LandService.get_land_detail over one parcel and fixed upstream answers *)

GeocodeDown == [ok |-> FALSE]

InitDetail ==
    /\ \E c \in CadastralAnswers, v \in VWorldAnswers, d \in DatagoAnswers,
          b \in BuildingAnswers,
          vkey \in BOOLEAN, dkey \in BOOLEAN :
          sources = [geocode |-> GeocodeDown, nearby |-> [ok |-> FALSE],
                     cadastral |-> c, vworld |-> v, datago |-> d, building |-> b,
                     regulation |-> [json |-> FALSE],
                     VWORLD_API_KEY |-> vkey, DATAGO_API_KEY |-> dkey]
    /\ \E a \in LandUseAnswers : landUseSrc = [p \in PNUs |-> a]
    /\ landCache = [p \in PNUs |-> NoRow]
    /\ cache = [k \in CacheKeys |-> NoEntry]
    /\ dispatched = << >>
    /\ massStudies = << >>
    /\ limiter = NoLimiter
    /\ request = NoRequest
    /\ calc = NoCalc
    /\ response = NoResponse

\* land/views.py lines 62-82: LandService.get_land_detail(pnu, x, y)
GetLandDetail(pnu, x, y) ==
    \E r \in {get_land_detail(pnu, x, y)} :
        /\ request' = [op |-> "get_land_detail", pnu |-> pnu, x |-> x, y |-> y]
        /\ calc' = [locals |-> r.locals]
        /\ response' = r.ret
        /\ cache' = r.cache
        /\ landCache' = r.landCache
        /\ dispatched' = r.sent
        /\ UNCHANGED <<landUseSrc, sources, massStudies, limiter>>

NextDetail ==
    \E pnu \in {"p1", ""}, xy \in {<<NoneNum, NoneNum>>, <<COORD_X, COORD_Y>>,
                                    <<COORD_X, NoneNum>>} :
        GetLandDetail(pnu, xy[1], xy[2])

SpecDetail == InitDetail /\ [][NextDetail]_vars

-----------------------------------------------------------------------------
(* SpecAnalysis: LandService.get_land_analysis over fixed upstream answers *)

Refined(level4LC, level4L) ==
    [text |-> <<"je", "ju", "si", " ", "a">>, level4LC |-> level4LC,
     level1 |-> <<"je", "ju">>, level2 |-> <<"je", "ju", "si">>, level4L |-> level4L,
     level5 |-> <<"1", "-", "2">>]

DONG_URBAN == <<"i", "do", "dong">>       \* '이도동'
DONG_RURAL == <<"ae", "wol", "eup">>      \* '애월읍'

GeocodeAnswers ==
    { [ok |-> FALSE],
      [ok |-> TRUE, status_ok |-> FALSE],
      [ok |-> TRUE, status_ok |-> TRUE, point |-> [x |-> COORD_X, y |-> COORD_Y],
       refined |-> Refined("p1", DONG_URBAN)],
      [ok |-> TRUE, status_ok |-> TRUE, point |-> [x |-> COORD_X, y |-> COORD_Y],
       refined |-> Refined("p1", DONG_RURAL)],
      [ok |-> TRUE, status_ok |-> TRUE, point |-> [x |-> COORD_X, y |-> COORD_Y],
       refined |-> Refined("", DONG_URBAN)],
      [ok |-> TRUE, status_ok |-> TRUE, point |-> [x |-> Zero, y |-> Zero],
       refined |-> Refined("p1", DONG_URBAN)] }

AnalysisLandUseAnswers ==
    LandUseAnswers \cup { [ok |-> TRUE, names |-> << >>],
                          [ok |-> TRUE, names |-> <<NoneStr, ZONE_SEMI_RES>>] }

InitAnalysis ==
    /\ \E g \in GeocodeAnswers, c \in CadastralAnswers, b \in BuildingAnswers,
          r \in RegulationAnswers, dkey \in BOOLEAN :
          sources = [geocode |-> g, nearby |-> [ok |-> FALSE],
                     cadastral |-> c, vworld |-> [json |-> FALSE],
                     datago |-> [json |-> FALSE], building |-> b, regulation |-> r,
                     VWORLD_API_KEY |-> TRUE, DATAGO_API_KEY |-> dkey]
    /\ \E a \in AnalysisLandUseAnswers : landUseSrc = [p \in PNUs |-> a]
    /\ landCache = [p \in PNUs |-> NoRow]
    /\ cache = [k \in CacheKeys |-> NoEntry]
    /\ dispatched = << >>
    /\ massStudies = << >>
    /\ limiter = NoLimiter
    /\ request = NoRequest
    /\ calc = NoCalc
    /\ response = NoResponse

\* land/views.py lines 262-285: LandService.get_land_analysis(address)
GetLandAnalysis(address) ==
    \E r \in {get_land_analysis(address)} :
        /\ request' = [op |-> "get_land_analysis", address |-> address]
        /\ calc' = [locals |-> r.locals]
        /\ response' = r.ret
        /\ cache' = r.cache
        /\ dispatched' = r.sent
        /\ UNCHANGED <<landCache, landUseSrc, sources, massStudies, limiter>>

NextAnalysis == \E address \in Addresses : GetLandAnalysis(address)

SpecAnalysis == InitAnalysis /\ [][NextAnalysis]_vars

-----------------------------------------------------------------------------
(* SpecSources: the cached source calls, each made any number of times *)

InitSources ==
    /\ \E g \in {a \in GeocodeAnswers :
                    (a.ok /\ a.status_ok) =>
                        (a.refined = Refined("p1", DONG_URBAN) /\ a.point.x # Zero)},
          c \in CadastralAnswers, b \in BuildingAnswers, n \in NearbyAnswers,
          dkey \in BOOLEAN :
          sources = [geocode |-> g, nearby |-> n, cadastral |-> c,
                     vworld |-> [json |-> FALSE], datago |-> [json |-> FALSE],
                     building |-> b, regulation |-> [json |-> FALSE],
                     VWORLD_API_KEY |-> TRUE, DATAGO_API_KEY |-> dkey]
    /\ \E a \in LandUseAnswers : landUseSrc = [p \in PNUs |-> a]
    /\ landCache = [p \in PNUs |-> NoRow]
    /\ cache = [k \in CacheKeys |-> NoEntry]
    /\ dispatched = << >>
    /\ massStudies = << >>
    /\ limiter = NoLimiter
    /\ request = NoRequest
    /\ calc = NoCalc
    /\ response = NoResponse

\* one call of a cached source function with result r
SourceCall(op, key, r) ==
    /\ request' = [op |-> op, key |-> key]
    /\ response' = r.ret
    /\ cache' = r.cache
    /\ dispatched' = r.sent
    /\ calc' = NoCalc
    /\ UNCHANGED <<landCache, landUseSrc, sources, massStudies, limiter>>

CallGeocode(address) ==
    \E r \in {geocode(address)} : SourceCall("geocode", <<"geocode", address>>, r)

CallGetCadastral(pnu) ==
    \E r \in {get_cadastral(pnu)} : SourceCall("get_cadastral", <<"cadastral", pnu>>, r)

CallGetLandUse(pnu) ==
    \E r \in {get_land_use(pnu)} : SourceCall("get_land_use", <<"landuse", pnu>>, r)

CallGetBuildingInfo(pnu) ==
    \E r \in {get_building_info(pnu)} :
        SourceCall("get_building_info", <<"building", pnu>>, r)

CallGetNearby(pnu, x, y, radius) ==
    \E r \in {get_nearby(pnu, x, y, radius)} :
        /\ request' = [op |-> "get_nearby", key |-> <<"nearby", pnu>>,
                       pnu |-> pnu, x |-> x, y |-> y, radius |-> radius]
        /\ response' = r.ret
        /\ cache' = r.cache
        /\ dispatched' = r.sent
        /\ calc' = NoCalc
        /\ UNCHANGED <<landCache, landUseSrc, sources, massStudies, limiter>>

NextSources ==
    \/ \E address \in Addresses : CallGeocode(address)
    \/ CallGetCadastral("p1")
    \/ CallGetLandUse("p1")
    \/ CallGetBuildingInfo("p1")
    \/ \E q \in NearbyQueries : CallGetNearby("p1", q[1], q[2], q[3])

SpecSources == InitSources /\ [][NextSources]_vars

-----------------------------------------------------------------------------
(* Properties of the solver, stated over the state after calculate returned *)

Solved == calc.locals.reached = "return"
SolverArea == calc.locals.parcel_area
SolverLimits == calc.locals.limits

\* width x depth before any correction
NaiveFootprint == MulReal(calc.locals.dims.width, calc.locals.dims.depth)
MaxLegalFootprint == RDiv(RMul(SolverArea, Int2Rat(SolverLimits.coverage)), Int2Rat(100))
MaxLegalFloorArea == RDiv(RMul(SolverArea, Int2Rat(SolverLimits.far)), Int2Rat(100))

\* naive footprint / parcel_area x 100 > legal coverage
NaiveCoverageExceeds == LtReal(Real(MaxLegalFootprint), NaiveFootprint)

\* footprint x target_floors > parcel_area x legal_far / 100, for a footprint fp
FarExceedsWith(fp) ==
    LtReal(Real(MaxLegalFloorArea), MulReal(fp, Real(Int2Rat(request.target_floors))))

\* |a - b| <= 1/200 and a is a multiple of 1/100: a is b as emitted with 2 decimals
IsRounded2(a, b) ==
    /\ 100 % a.d = 0
    /\ RLeq(RSub(a, b), Rat(1, 200))
    /\ RLeq(RSub(b, a), Rat(1, 200))

-----------------------------------------------------------------------------
(* Claims *)

\* C1 as stated: whenever the naive footprint exceeds the legal coverage, the
\* result's footprint is exactly parcel_area x legal_coverage / 100, the reported
\* coverage ratio is exactly the legal coverage and coverage_ok is true.
C1_FootprintExactlyLegal ==
    (Solved /\ NaiveCoverageExceeds) =>
        /\ calc.result.building_area = MaxLegalFootprint
        /\ calc.result.coverage_ratio = Int2Rat(SolverLimits.coverage)
        /\ calc.result.legal_check.coverage_ok

\* C1 amended: whenever the naive footprint exceeds the legal coverage, the
\* result's footprint is parcel_area x legal_coverage / 100 as rounded to 2
\* decimals by the output (so exactly that value when it has at most 2 decimals),
\* the reported coverage ratio is exactly the legal coverage and coverage_ok is true.
C1_FootprintLegalRounded ==
    (Solved /\ NaiveCoverageExceeds) =>
        /\ IsRounded2(calc.result.building_area, MaxLegalFootprint)
        /\ calc.result.coverage_ratio = Int2Rat(SolverLimits.coverage)
        /\ calc.result.legal_check.coverage_ok

\* a coverage correction whose legal footprint has more than 2 decimals
C1_Witness ==
    /\ Solved
    /\ NaiveCoverageExceeds
    /\ calc.locals.cov.corrected
    /\ calc.result.building_area # MaxLegalFootprint

\* C2: whenever footprint x target_floors exceeds parcel_area x legal_far / 100,
\* the final floor count is the truncation of (parcel_area x legal_far / 100) /
\* footprint, total floor area and FAR are those of that floor count, the FAR
\* does not exceed the legal FAR and far_ok is true.
C2_FarCorrection ==
    (Solved /\ FarExceedsWith(calc.locals.cov.building_area)) =>
        LET fp == calc.locals.cov.building_area
            k == calc.result.floors
            tfa == MulReal(fp, Real(Int2Rat(k)))
        IN  /\ LeqReal(tfa, Real(MaxLegalFloorArea))
            /\ LtReal(Real(MaxLegalFloorArea), MulReal(fp, Real(Int2Rat(k + 1))))
            /\ calc.result.total_floor_area = RoundReal(tfa, 2)
            /\ calc.result.far_ratio = RoundReal(Percent(tfa, SolverArea), 2)
            /\ RLeq(calc.result.far_ratio, Int2Rat(SolverLimits.far))
            /\ calc.result.legal_check.far_ok

\* a FAR correction that truncates a fractional quotient
C2_Witness ==
    /\ Solved
    /\ FarExceedsWith(calc.locals.cov.building_area)
    /\ calc.result.floors >= 1
    /\ LtReal(MulReal(calc.locals.cov.building_area, Real(Int2Rat(calc.result.floors))),
              Real(MaxLegalFloorArea))

\* both naive ratios are within the legal limits
NaiveCompliant == Solved /\ ~NaiveCoverageExceeds /\ ~FarExceedsWith(NaiveFootprint)

\* C3 as stated: for an input whose naive coverage and naive FAR are within the
\* limits, the result's footprint equals the naive width x depth and the final
\* floor count equals target_floors.
C3_CompliantUntouched ==
    NaiveCompliant =>
        /\ calc.result.building_area = NaiveFootprint.c
        /\ calc.result.floors = request.target_floors

\* C3 amended: for an input whose naive coverage and naive FAR are within the
\* limits, the result's footprint is the naive width x depth as rounded to 2
\* decimals by the output and the final floor count equals target_floors.
C3_CompliantUntouchedRounded ==
    NaiveCompliant =>
        /\ calc.locals.cov.building_area = NaiveFootprint
        /\ IsRounded2(calc.result.building_area, NaiveFootprint.c)
        /\ calc.result.floors = request.target_floors

\* a compliant design whose naive footprint has more than 2 decimals
C3_Witness ==
    /\ NaiveCompliant
    /\ calc.result.building_area # NaiveFootprint.c

\* C4: the final floor count of a successful solve never exceeds target_floors.
C4_FloorsNeverRaised ==
    Solved => calc.result.floors <= request.target_floors

\* a solve that lowered the floor count
C4_Witness == Solved /\ calc.result.floors < request.target_floors


MassRequest == request.op = "mass_calculate"
ServiceInvoked == MassRequest /\ calc # NoCalc
StoredRow == landCache[request.pnu]
EffectiveSetbacks == IF request.setbacks.given THEN request.setbacks ELSE DEFAULT_SETBACKS

\* sqrt(parcel_area) - a - b <= 0, for the parcel_area the solver works with
SideConsumedBy(a, b) ==
    LET side == Sqrt(calc.locals.parcel_area)
    IN  IF IsRational(side) THEN RLeq(side.c, RAdd(a, b))
        ELSE RLeq(SquareOf(side), RMul(RAdd(a, b), RAdd(a, b)))

SolverFailed == calc.result.error \in {"INVALID_SETBACKS", "LAND_NOT_FOUND"}

ResultValueFields ==
    {"building_area", "total_floor_area", "coverage_ratio", "far_ratio", "floors", "height",
     "legal_check", "legal_limits", "geometry"}

\* C5: the solver fails with INVALID_SETBACKS exactly when sqrt(parcel_area) - left -
\* right <= 0 or sqrt(parcel_area) - front - back <= 0; a result failing with
\* INVALID_SETBACKS or LAND_NOT_FOUND carries no footprint, ratio, floor or geometry
\* field, and the view then creates no MassStudy row.
C5_InvalidSetbacksTerminal ==
    /\ [](ServiceInvoked =>
            /\ StoredRow.exists =>
                  ((~calc.result.success /\ calc.result.error = "INVALID_SETBACKS") <=>
                   (\/ SideConsumedBy(EffectiveSetbacks.left, EffectiveSetbacks.right)
                    \/ SideConsumedBy(EffectiveSetbacks.front, EffectiveSetbacks.back)))
            /\ ~calc.result.success =>
                  /\ SolverFailed
                  /\ DOMAIN calc.result \cap ResultValueFields = {}
                  /\ response.status = 400
                  /\ response.body.error = calc.result.error)
    /\ [][(request'.op = "mass_calculate" /\ ~calc'.result.success)
             => massStudies' = massStudies]_vars

\* setbacks that consume the width exactly were rejected and nothing was stored
C5_Witness ==
    /\ ServiceInvoked
    /\ calc.locals.reached = "setbacks"
    /\ calc.result.error = "INVALID_SETBACKS"
    /\ calc.locals.dims.width = Real(Zero)
    /\ IsPositive(calc.locals.dims.depth)
    /\ massStudies = << >>

\* C6: when the parcel row is missing, or its area is missing or zero, or its
\* use-zone is missing or empty, calculate fails with the parcel-not-found kind.
C6_RequiresKnownParcel ==
    (ServiceInvoked /\ (IF ~StoredRow.exists THEN TRUE
                        ELSE ~TruthyNum(StoredRow.parcel_area) \/ ~TruthyStr(StoredRow.use_zone)))
        => (~calc.result.success /\ calc.result.error = "LAND_NOT_FOUND")

\* C7: for a parcel whose zoning plan carries the settlement marker, calculate
\* checks against the coverage / FAR / height-limit that get_regulation reports.
C7_SameLimitsAsRegulation ==
    (MassRequest /\ calc.result.success /\ TruthyStr(StoredRow.use_zone)) =>
        LET reg == get_regulation(request.pnu).ret
            plan == get_land_use(request.pnu).ret
        IN  (plan.success /\ HasSettlementZone(plan.zones)) =>
                /\ reg.success
                /\ calc.result.legal_limits =
                      [coverage |-> reg.data.coverage, far |-> reg.data.far,
                       height_limit |-> reg.data.height_limit]

\* C8: get_regulation and calculate use coverage 20 / FAR 80 whenever the stored
\* use-zone is not an entry of the table, the empty use-zone included (for
\* get_regulation: when no settlement district overrides the zone).
C8_DefaultLimitsForUnknownZone ==
    /\ (request.op = "get_regulation" /\ response.success
            /\ StoredRow.use_zone \notin DOMAIN JEJU_BUILDING_LIMITS
            /\ response.data.note = NoneStr)
          => (response.data.coverage = 20 /\ response.data.far = 80)
    /\ (MassRequest /\ calc.result.success
            /\ StoredRow.use_zone \notin DOMAIN JEJU_BUILDING_LIMITS)
          => (calc.result.legal_limits.coverage = 20 /\ calc.result.legal_limits.far = 80)

LimitsCall == response # NoResponse /\ response.fn = "get_building_limits"

\* C9: with is_settlement true get_building_limits returns 50/100 if the zone name
\* contains the green marker and 60/100 otherwise, with no height limit, whatever
\* the zone's table entry; with is_settlement false it returns the zone's table
\* entry, and coverage 20, FAR 80, no height limit, no note for a zone not in the table.
C9_BuildingLimits ==
    LimitsCall =>
        LET z == request.use_zone
            ret == response.ret
        IN  IF request.is_settlement
            THEN /\ ret.coverage = (IF Contains(MARK_GREEN, z) THEN 50 ELSE 60)
                 /\ ret.far = 100
                 /\ ret.height_limit = NoneStr
            ELSE IF z \in DOMAIN JEJU_BUILDING_LIMITS
            THEN /\ ret.coverage = JEJU_BUILDING_LIMITS[z].coverage
                 /\ ret.far = JEJU_BUILDING_LIMITS[z].far
                 /\ ret.height_limit = GetHeightLimit(JEJU_BUILDING_LIMITS[z])
            ELSE ret = [coverage |-> 20, far |-> 80, height_limit |-> NoneStr,
                        note |-> NoneStr]

\* the settlement tuple overrode the table entry of the natural green zone
C9_Witness ==
    /\ LimitsCall
    /\ request.is_settlement
    /\ request.use_zone = ZONE_GREEN_NATURAL
    /\ response.ret.coverage = 50
    /\ response.ret.far = 100

SetbackCall == response # NoResponse /\ response.fn = "calculate_north_setback"

\* C10: calculate_north_setback is 0 for a zone name that is not residential, at
\* any height; for a residential zone it is 1.5 for height <= 9 and
\* 1.5 + (height - 9) x 0.5 for height > 9.
C10_NorthSetback ==
    SetbackCall =>
        LET h == request.height
            ret == response.ret
        IN  IF ~Contains(MARK_RESIDENTIAL, request.use_zone) THEN ret = Zero
            ELSE IF RLeq(h, Int2Rat(9)) THEN ret = Rat(3, 2)
            ELSE RSub(RAdd(ret, ret), Int2Rat(3)) = RSub(h, Int2Rat(9))

\* a residential zone just above the 9 m boundary: 9.01 m needs 1.505 m
C10_Witness ==
    /\ SetbackCall
    /\ Contains(MARK_RESIDENTIAL, request.use_zone)
    /\ request.height = Rat(901, 100)
    /\ response.ret = Rat(301, 200)

HeightCall == response # NoResponse /\ response.fn = "get_height_limit_from_setback"

\* C11: for a residential zone and a height h > 9,
\* get_height_limit_from_setback(calculate_north_setback(h, zone), zone) = h;
\* for a zone that is not residential the function returns +infinity.
C11_HeightInverse ==
    HeightCall =>
        IF ~Contains(MARK_RESIDENTIAL, request.use_zone) THEN response.ret = Infinity
        ELSE RLt(Int2Rat(9), request.height) => response.ret = request.height

PnuBuilt == response # NoResponse /\ response.fn = "_build_pnu"
PnuDecoded == response # NoResponse /\ response.fn = "get_building_info"

\* the lot text of a jibun: the jibun without its mountain marker
LotText(jibun) == SelectSeq(jibun, LAMBDA c : c # SAN /\ c # " ")
MainLotDigits(jibun) == Filter(UpToDash(LotText(jibun)), Digits)
SubLotDigits(jibun) == Filter(UpToDash(AfterDash(LotText(jibun))), Digits)
Pad4(ds) == IF Len(ds) >= 4 THEN ds ELSE ZFill(IF ds = << >> THEN <<"0">> ELSE ds, 4)

\* C12: slicing the PNU that _build_pnu produced at 10, 11:15 and 15:19 recovers
\* the jibun's main and sub lot digits zero-padded to 4 (sub lot 0000 when
\* absent), and flag 0 when the jibun has no mountain marker, 1 when it starts
\* with the marker.
C12_PnuRoundTrip ==
    PnuDecoded =>
        LET jibun == request.jibun
        IN  /\ response.ret.bun = Pad4(MainLotDigits(jibun))
            /\ response.ret.ji = Pad4(SubLotDigits(jibun))
            /\ (\A i \in 1..Len(jibun) : jibun[i] # SAN) => Slice(response.pnu, 10, 11) = <<"0">>
            /\ jibun[1] = SAN => Slice(response.pnu, 10, 11) = <<"1">>

\* C13: _build_pnu returns the empty string exactly when the code or the jibun
\* is absent, and otherwise 19 characters: code(10) + flag(1) + main lot(4) +
\* sub lot(4).
C13_PnuLayout ==
    PnuBuilt =>
        LET absent == ~TruthyStr(request.level4LC) \/ ~TruthyStr(request.jibun)
            pnu == response.ret
        IN  /\ (pnu = << >>) <=> absent
            /\ ~absent =>
                  /\ Len(pnu) = 19
                  /\ Slice(pnu, 0, 10) = request.level4LC
                  /\ pnu[11] \in {"0", "1"}
                  /\ \A i \in 12..19 : pnu[i] \in Digits

DetailResolved ==
    /\ request # NoRequest
    /\ request.op = "get_land_detail"
    /\ response.success
    /\ ~response.cached

\* the value a source set for a field, Zero / << >> when it set none
SetNum(src, key) ==
    IF src.success /\ key \in DOMAIN src /\ TruthyNum(src[key]) THEN src[key] ELSE Zero
SetStr(src, key) ==
    IF src.success /\ key \in DOMAIN src /\ TruthyStr(src[key]) THEN src[key] ELSE << >>

\* the first entry of vs that is not empty, or empty
RECURSIVE FirstSet(_, _)
FirstSet(vs, empty) ==
    IF vs = << >> THEN empty
    ELSE IF Head(vs) # empty THEN Head(vs) ELSE FirstSet(Tail(vs), empty)

\* C14: in get_land_detail a field (area, use zone, official price, address) that
\* a higher-priority source set to a non-zero / non-empty value is never replaced
\* by a lower-priority source: each resolved field is the value of the first
\* source, in the order cadastral, VWorld, data.go.kr, zoning plan, that set it.
C14_MergePrecedence ==
    DetailResolved =>
        LET c == calc.locals.cadastral
            v == calc.locals.vworld
            d == calc.locals.datago
            u == calc.locals.land_use
            data == response.data
        IN  /\ data.parcel_area =
                   FirstSet(<<SetNum(c, "area"), SetNum(v, "area"), SetNum(d, "area")>>, Zero)
            /\ data.use_zone =
                   FirstSet(<<SetStr(c, "use_zone"), SetStr(v, "use_zone"),
                              SetStr(d, "use_zone"), SetStr(u, "primary_zone")>>, << >>)
            /\ data.official_land_price =
                   FirstSet(<<SetNum(c, "jiga"), SetNum(v, "jiga"), SetNum(d, "jiga")>>, Zero)
            /\ data.address_jibun = FirstSet(<<SetStr(v, "address")>>, << >>)

\* the cadastral upstream answered with data
CadastralData ==
    /\ sources.cadastral.ok
    /\ sources.cadastral.cadastral.present \/ sources.cadastral.landChar.present

\* the numeric area of the characteristics part of the cadastral answer
CharacteristicsArea ==
    IF CadastralData /\ sources.cadastral.landChar.present
          /\ TruthyNum(sources.cadastral.landChar.lndpclAr)
    THEN sources.cadastral.landChar.lndpclAr ELSE Zero

\* the area of the raw cadastral polygon, rounded to 2 decimals
RoundedPolygonArea ==
    IF CadastralData /\ sources.cadastral.cadastral.present
          /\ sources.cadastral.cadastral.geometry.present
    THEN RRound(calculate_polygon_area(sources.cadastral.cadastral.geometry), 2) ELSE Zero

\* C15: the resolved parcel area is the characteristics area when it is non-zero,
\* otherwise the cadastral polygon area rounded to 2 decimals, otherwise the area
\* of a further characteristics source: the first non-zero value in that order,
\* and zero only if every source yields none.
C15_AreaReconciliation ==
    DetailResolved =>
        response.data.parcel_area =
            FirstSet(<<CharacteristicsArea, RoundedPolygonArea,
                       SetNum(calc.locals.vworld, "area"),
                       SetNum(calc.locals.datago, "area")>>, Zero)

\* the characteristics area was zero and the polygon area 247.842848 was resolved as 247.84
C15_Witness ==
    /\ DetailResolved
    /\ CharacteristicsArea = Zero
    /\ CadastralData
    /\ sources.cadastral.cadastral.present
    /\ sources.cadastral.cadastral.geometry.present
    /\ calculate_polygon_area(sources.cadastral.cadastral.geometry) = Rat(247842848, 1000000)
    /\ response.data.parcel_area = Rat(24784, 100)

\* the polygon had no area either and the data.go.kr area was resolved
C15_WitnessFurther ==
    /\ DetailResolved
    /\ CharacteristicsArea = Zero
    /\ RoundedPolygonArea = Zero
    /\ ~calc.locals.vworld.success
    /\ response.data.parcel_area = Int2Rat(150)

AnalysisDone == request # NoRequest /\ request.op = "get_land_analysis"
AnalysisMerged == AnalysisDone /\ calc.locals.reached = "merge"

\* C16: in get_land_analysis the primary use zone is the cadastral source's zone if
\* non-empty, else the first zone listed by the zoning plan, else an estimate
\* from the sub-district name (제2종일반주거지역 if it ends with 동, 계획관리지역
\* otherwise); on every successful resolution it is non-empty.
C16_UseZoneReconciliation ==
    (AnalysisDone /\ response.success) =>
        LET explicit == SetStr(calc.locals.cadastral, "use_zone")
            plan == calc.locals.land_use
            listed == IF plan.success THEN plan.zones ELSE << >>
            dong == response.geocode.dong
            zone == response.standards.use_zone
        IN  /\ zone # << >>
            /\ zone # NoneStr
            /\ zone = IF explicit # << >> THEN explicit
                       ELSE IF listed # << >> THEN listed[1].name
                       ELSE IF dong[Len(dong)] = DONG_SUFFIX THEN ZONE_RES_GEN_2
                       ELSE ZONE_MGMT_PLANNED

\* the cadastral source named no zone and the first zone of the zoning plan was taken
C16_Witness ==
    /\ AnalysisDone
    /\ response.success
    /\ calc.locals.cadastral.success
    /\ calc.locals.cadastral.use_zone = << >>
    /\ calc.locals.land_use.success
    /\ Len(calc.locals.land_use.zones) = 2
    /\ response.standards.use_zone = ZONE_GREEN_NATURAL

\* the sections of a successful analysis whose source failed hold their defaults
DegradedDefaults ==
    (AnalysisDone /\ response.success) =>
        /\ ~calc.locals.cadastral.success =>
               response.land_char =
                   [land_category |-> LAND_CATEGORY_DAE, area |-> Zero,
                    official_land_price |-> Zero, ownership |-> DASH,
                    land_use_situation |-> DASH, terrain_height |-> DASH,
                    terrain_shape |-> DASH, road_side |-> DASH]
        /\ ~calc.locals.land_use.success => response.land_use = << >>
        /\ ~calc.locals.building_info.success =>
               response.building = [exists |-> FALSE, buildings |-> << >>]
        /\ ~calc.locals.regulation_info.success => response.regulations = << >>

GeocodedParcel ==
    /\ calc.locals.geocode.success
    /\ calc.locals.geocode.pnu # ""

\* C17: if geocoding succeeds and yields a parcel identifier, the analysis
\* succeeds whatever the cadastral, zoning-plan, building-registry and regulation
\* queries do, with a failed source's fields at their defaults; it fails only
\* when geocoding fails or yields no parcel identifier.
C17_DegradedResolution ==
    /\ DegradedDefaults
    /\ AnalysisDone => (response.success <=> GeocodedParcel)

\* C17 with the coordinates: the analysis succeeds exactly when geocoding
\* succeeds and yields a parcel identifier and non-zero coordinates; a failed
\* source's fields are at their defaults.
C17_DegradedResolutionCoordinates ==
    /\ DegradedDefaults
    /\ AnalysisDone =>
          (response.success <=>
              /\ GeocodedParcel
              /\ calc.locals.geocode.x # Zero
              /\ calc.locals.geocode.y # Zero)

\* every source but the geocoder failed and the analysis succeeded
C17_Witness ==
    /\ AnalysisDone
    /\ response.success
    /\ ~calc.locals.cadastral.success
    /\ ~calc.locals.land_use.success
    /\ ~calc.locals.building_info.success
    /\ ~calc.locals.regulation_info.success
    /\ response.land_char.area = Zero
    /\ response.standards.use_zone \in {ZONE_RES_GEN_2, ZONE_MGMT_PLANNED}

\* position of a request in the fixed order of an analysis
Rank(name) ==
    CASE name = "geocode" -> 0
      [] name = "cadastral" -> 1
      [] name = "landuse" -> 2
      [] name = "building" -> 3
      [] name = "regulation" -> 4

\* C19: in get_land_analysis the reconciliation runs only after every source
\* query has settled, the cadastral query is issued first, and the merged result
\* depends only on the sources' results: a repeated analysis of the same address
\* gives the same result whichever queries were served from the cache.
C19_MergeOrdering ==
    /\ [](AnalysisMerged =>
             /\ \A src \in {"cadastral", "land_use", "building_info", "regulation_info"} :
                    "success" \in DOMAIN calc.locals[src]
             /\ \A i, j \in 1..Len(dispatched) :
                    i < j => Rank(dispatched[i]) <= Rank(dispatched[j]))
    /\ [][(AnalysisDone /\ request' = request) => response' = response]_vars

\* the cadastral and the zoning-plan queries were both sent, in that order
C19_Witness ==
    /\ AnalysisMerged
    /\ response.success
    /\ \E i, j \in 1..Len(dispatched) :
          i < j /\ dispatched[i] = "cadastral" /\ dispatched[j] = "landuse"

SourceOps == {"geocode", "get_cadastral", "get_land_use", "get_building_info", "get_nearby"}

\* the upstream of a source call answered successfully
Answered(op) ==
    CASE op = "geocode" -> sources.geocode.ok /\ sources.geocode.status_ok
      [] op = "get_cadastral" -> CadastralData
      [] op = "get_land_use" -> landUseSrc["p1"].ok
      [] op = "get_building_info" -> sources.DATAGO_API_KEY /\ sources.building.json
      [] op = "get_nearby" -> sources.nearby.ok

\* the source can be asked at all
Configured(op) == op = "get_building_info" => sources.DATAGO_API_KEY

Days(n) == n * 24 * 60 * 60
Minutes(n) == n * 60

OwnTTL(op) ==
    CASE op = "geocode" -> Days(1)
      [] op = "get_cadastral" -> Days(7)
      [] op = "get_land_use" -> Days(7)
      [] op = "get_building_info" -> Days(1)
      [] op = "get_nearby" -> Minutes(5)

\* C18: each source call consults the cache before dispatch and returns a hit
\* without any external request; the cache is written only after a successful
\* response, so a failure result is never stored and a failed call is dispatched
\* again on its next invocation; entries carry the source's own TTL (geocode
\* 1 day, cadastral 7 days, building registry 1 day, nearby 5 minutes).
C18_CachingProtocol ==
    /\ [](\A k \in CacheKeys : cache[k] # NoEntry => cache[k].value.success)
    /\ [][LET op == request'.op
              k == request'.key
          IN  /\ cache[k] # NoEntry /\ Configured(op) =>
                    /\ response' = cache[k].value
                    /\ dispatched' = << >>
                    /\ cache' = cache
              /\ cache[k] = NoEntry /\ Configured(op) => dispatched' # << >>
              /\ cache' # cache =>
                    /\ Answered(op)
                    /\ dispatched' # << >>
                    /\ cache' = [cache EXCEPT ![k] = [cached |-> TRUE, value |-> response',
                                                      timeout |-> OwnTTL(op)]]
              /\ (~response'.success \/ ~Answered(op)) => cache' = cache]_vars

\* the cadastral call failed before and is dispatched again
C18_WitnessRetry ==
    /\ request # NoRequest
    /\ request.op = "get_cadastral"
    /\ ~response.success
    /\ dispatched = <<"cadastral">>
    /\ cache[request.key] = NoEntry

\* a stored geocode result was returned without a request
C18_Witness ==
    /\ request # NoRequest
    /\ request.op = "geocode"
    /\ dispatched = << >>
    /\ response.success
    /\ cache[request.key] = [cached |-> TRUE, value |-> response, timeout |-> Days(1)]

\* the result of the same request with the setbacks sb instead
OtherDesign(sb) == calculate(GetLand(request.pnu), request.target_floors, sb).result

\* the result says setback_ok exactly when the requested back setback is at least
\* calculate_north_setback(height, use_zone) for the result's height
SetbackOkIsBackRule ==
    /\ calc.result.height = RMul(Int2Rat(calc.result.floors), Int2Rat(3))
    /\ calc.result.legal_check.setback_ok <=>
            RLeq(calculate_north_setback(calc.result.height, calc.locals.use_zone),
                 request.setbacks.back)

\* C20 as stated: in every successful result, height = final_floor_count x 3.0
\* and setback_ok is true if and only if the requested back setback is at least
\* calculate_north_setback(height, use_zone); the front, left and right setbacks
\* never influence setback_ok: a design that differs only in them has the same
\* setback_ok.
C20_SetbackOnlyBack ==
    Solved =>
        /\ SetbackOkIsBackRule
        /\ \A sb \in SolveSetbacks :
              (sb.back = request.setbacks.back /\ Representable(GetLand(request.pnu), sb)
                  /\ OtherDesign(sb).success)
                => OtherDesign(sb).legal_check.setback_ok = calc.result.legal_check.setback_ok

\* C20 amended: in every successful result, height = final_floor_count x 3.0 and
\* setback_ok is true if and only if the requested back setback is at least
\* calculate_north_setback(height, use_zone); the front, left and right setbacks
\* are not compared with the required distance, and two designs with the same
\* back setback, use zone and final floor count have the same setback_ok.
C20_SetbackCompliance ==
    Solved =>
        /\ SetbackOkIsBackRule
        /\ \A sb \in SolveSetbacks :
              (sb.back = request.setbacks.back /\ Representable(GetLand(request.pnu), sb)
                  /\ OtherDesign(sb).success
                  /\ OtherDesign(sb).floors = calc.result.floors)
                => OtherDesign(sb).legal_check.setback_ok = calc.result.legal_check.setback_ok

\* a design passes the rule although its front setback is below the required distance
C20_Witness ==
    /\ Solved
    /\ calc.result.legal_check.setback_ok
    /\ ~RLeq(calc.locals.sb.north_setback_required, request.setbacks.front)
    /\ \E sb \in SolveSetbacks :
          /\ sb # request.setbacks /\ sb.back = request.setbacks.back
          /\ OtherDesign(sb).success /\ OtherDesign(sb).floors = calc.result.floors

\* the number written by the leading digits of a string, 0 when it has none
RECURSIVE LeadingNumberFrom(_, _)
LeadingNumberFrom(s, acc) ==
    IF s = << >> \/ Head(s) \notin Digits THEN acc
    ELSE LeadingNumberFrom(Tail(s),
            10 * acc + (CHOOSE v \in 0..9 : ToString(v) = Head(s)))
LeadingNumber(s) == LeadingNumberFrom(s, 0)

\* the zone's limits carry a floor-count cap phrase
HasCapPhrase == TruthyStr(calc.result.legal_limits.height_limit)

\* C21: when the zone's legal limits carry a floor-count cap phrase, height_ok is
\* true if and only if the final floor count is at most the number leading that
\* phrase; without a cap phrase height_ok is true.
C21_HeightLimitCompliance ==
    Solved =>
        IF HasCapPhrase
        THEN calc.result.legal_check.height_ok <=>
                 calc.result.floors <= LeadingNumber(calc.result.legal_limits.height_limit)
        ELSE calc.result.legal_check.height_ok

\* a zone capped at 4 floors carries a building of more floors
C21_Witness ==
    /\ Solved
    /\ HasCapPhrase
    /\ ~calc.result.legal_check.height_ok
    /\ calc.result.floors > LeadingNumber(calc.result.legal_limits.height_limit)
    /\ LeadingNumber(calc.result.legal_limits.height_limit) = 4

\* a is the non-negative real x rounded to 2 decimals: a multiple of 0.01 within 0.005 of x
IsRoundedReal2(a, x) ==
    /\ 100 % a.d = 0
    /\ LeqReal(x, Real(RAdd(a, Rat(1, 200))))
    /\ \/ RLt(a, Rat(1, 200))
       \/ LeqReal(Real(RSub(a, Rat(1, 200))), x)

\* the centre and the height of the box of a solved design
BoxPlacement ==
    LET g == calc.result.geometry
        sb == request.setbacks
    IN  /\ g.dimensions.height = calc.locals.sb.height
        /\ g.position.x = RDiv(RSub(sb.left, sb.right), Int2Rat(2))
        /\ g.position.z = RDiv(RSub(sb.front, sb.back), Int2Rat(2))
        /\ g.position.y = RDiv(calc.locals.sb.height, Int2Rat(2))

\* C22 as stated: the box of a successful result has the final buildable width
\* and depth, so width x depth equals the reported footprint area; its height is
\* the final height, its horizontal centre ((left - right)/2, (front - back)/2)
\* and its vertical centre height/2.
C22_BoxGeometryExact ==
    Solved =>
        LET g == calc.result.geometry
        IN  /\ Real(g.dimensions.width) = calc.locals.cov.width
            /\ Real(g.dimensions.depth) = calc.locals.cov.depth
            /\ RMul(g.dimensions.width, g.dimensions.depth) = calc.result.building_area
            /\ BoxPlacement

\* C22 amended: the box's width and depth are the final buildable width and depth
\* as rounded to 2 decimals by the output (so width x depth equals the reported
\* footprint only up to that rounding); its height is the final height, its
\* horizontal centre ((left - right)/2, (front - back)/2) and its vertical centre
\* height/2.
C22_BoxGeometryRounded ==
    Solved =>
        LET g == calc.result.geometry
        IN  /\ IsRoundedReal2(g.dimensions.width, calc.locals.cov.width)
            /\ IsRoundedReal2(g.dimensions.depth, calc.locals.cov.depth)
            /\ BoxPlacement

\* a coverage-corrected box off the parcel's centre whose rounded sides do not
\* multiply to the reported footprint
C22_Witness ==
    /\ Solved
    /\ calc.locals.cov.corrected
    /\ request.setbacks.front # request.setbacks.back
    /\ RMul(calc.result.geometry.dimensions.width, calc.result.geometry.dimensions.depth)
           # calc.result.building_area

\* C27: for every zone of the regulation table and the default tuple, and every
\* valid input (target_floors >= 1, setbacks >= 0 leaving positive dimensions),
\* a successful solve returns a final floor count >= 1 and a positive height:
\* the FAR correction never reduces the building to zero floors.
C27_AtLeastOneFloor ==
    Solved =>
        /\ request.target_floors >= 1
        /\ calc.result.floors >= 1
        /\ RLt(Zero, calc.result.height)
        /\ calc.locals.far.corrected => calc.locals.far.actual_floors >= 1

\* both corrections applied in a zone whose FAR is twice its coverage: the
\* fewest floors a FAR correction leaves
C27_Witness ==
    /\ Solved
    /\ calc.locals.cov.corrected
    /\ calc.locals.far.corrected
    /\ SolverLimits.far = 2 * SolverLimits.coverage
    /\ calc.result.floors = 2
    /\ request.target_floors > 2

-----------------------------------------------------------------------------
(* SpecCategory: the two parcel sources asked about a lot whose only category *)
(* information is its lot-number string                                       *)

InitCategory ==
    /\ \E j \in Jibuns :
          sources = [cadastral |-> [ok |-> TRUE,
                                    cadastral |-> Cadastral(Int2Rat(1000), NoGeometry, j),
                                    landChar |-> NoDict],
                     vworld |-> [json |-> TRUE, status_ok |-> TRUE,
                                 feature |-> [present |-> TRUE,
                                              properties |-> [jiga |-> Int2Rat(2000),
                                                              jibun |-> j, addr |-> << >>],
                                              geometry |-> Degenerate]],
                     VWORLD_API_KEY |-> TRUE]
    /\ landUseSrc = [p \in PNUs |-> [ok |-> FALSE]]
    /\ landCache = [p \in PNUs |-> NoRow]
    /\ cache = [k \in CacheKeys |-> NoEntry]
    /\ dispatched = << >>
    /\ massStudies = << >>
    /\ limiter = NoLimiter
    /\ request = NoRequest
    /\ calc = NoCalc
    /\ response = NoResponse

CallVWorldLandCharacteristics(pnu) ==
    \E r \in {vworld_get_land_characteristics(pnu)} :
        SourceCall("vworld_get_land_characteristics", <<"vworld_land", pnu>>, r)

NextCategory ==
    \/ CallGetCadastral("p1")
    \/ CallVWorldLandCharacteristics("p1")

SpecCategory == InitCategory /\ [][NextCategory]_vars

\* the lot-number string both sources carry
LotNumber == sources.cadastral.cadastral.jibun

\* the last character of s that is neither a digit, a space nor a hyphen, and
\* the building-lot category when s has none
CategoryOf(s) ==
    LET letters == IF TruthyStr(s)
                   THEN {i \in 1..Len(s) : s[i] \notin Digits \cup {" ", "-"}}
                   ELSE {}
    IN  IF letters = {} THEN LAND_CATEGORY_DAE
        ELSE <<s[CHOOSE i \in letters : \A k \in letters : k <= i]>>

\* C25: when no source supplies a category label, the cadastral-proxy derivation
\* and the direct VWorld derivation both return the last character of the
\* lot-number string that is neither a digit, a space nor a hyphen, or the
\* building-lot category when there is none, and so agree on every string.
C25_CategoryDerivation ==
    (request # NoRequest /\ response.success) =>
        response.land_category = CategoryOf(LotNumber)

-----------------------------------------------------------------------------
(* apps/core/decorators.py: rate_limit_free; apps/core/views.py: RateLimitResetView *)

FEATURE_ADDRESS_SEARCH == <<"ju", "so", "geom", "saek">>       \* '주소검색'
FEATURE_LAND_LOOKUP == <<"to", "ji", "jo", "hoe">>             \* '토지조회'
FEATURE_PARCEL_CLICK == <<"pil", "ji", "keul", "lik">>         \* '필지클릭'
FEATURE_LAND_ANALYSIS == <<"to", "ji", "bun", "seok">>         \* '토지분석'
FEATURE_MASS_CALC == <<"mae", "seu", "gye", "san">>            \* '매스계산'
FEATURE_MASS_STUDY == <<"mae", "seu", "seu", "teo", "di">>     \* '매스스터디'

\* the views decorated with rate_limit_free, with the arguments of the decorator
RATE_LIMITED_VIEWS ==
    { [view |-> "AddressSearchView.get", feature_name |-> FEATURE_ADDRESS_SEARCH,
       limit_per_day |-> 5],
      [view |-> "LandDetailView.get", feature_name |-> FEATURE_LAND_LOOKUP,
       limit_per_day |-> 10],
      [view |-> "ParcelByPointView.post", feature_name |-> FEATURE_PARCEL_CLICK,
       limit_per_day |-> 10],
      [view |-> "LandAnalysisView.post", feature_name |-> FEATURE_LAND_ANALYSIS,
       limit_per_day |-> 10],
      [view |-> "MassCalculateView.post", feature_name |-> FEATURE_MASS_CALC,
       limit_per_day |-> 3] }

\* views.py line 118: the features RateLimitResetView clears for a user
RESET_FEATURES ==
    <<FEATURE_ADDRESS_SEARCH, FEATURE_LAND_LOOKUP, FEATURE_PARCEL_CLICK,
      FEATURE_LAND_ANALYSIS, FEATURE_MASS_STUDY>>

\* settings.CACHE_TIMEOUTS['rate_limit']
TTL_RATE_LIMIT == 86400

\* x_forwarded_for.split(',')[0]
RECURSIVE UpToComma(_)
UpToComma(s) ==
    IF s = << >> \/ Head(s) = "," THEN << >> ELSE <<Head(s)>> \o UpToComma(Tail(s))

\* decorators.py lines 42-51: the user id of a logged-in user, else the client address
UserKey(req) ==
    IF req.user.is_authenticated
    THEN <<"user_", ToString(req.user.id)>>
    ELSE LET x_forwarded_for == req.META.HTTP_X_FORWARDED_FOR
             ip == IF TruthyStr(x_forwarded_for) THEN Strip(UpToComma(x_forwarded_for))
                   ELSE req.META.REMOTE_ADDR
         IN  <<"ip_">> \o ip

\* line 53
RateKey(feature_name, user_key) == <<"rate_limit", feature_name, user_key>>

\* cache.get(cache_key, 0)
CacheGet(cache_key, default) ==
    IF cache[cache_key] = NoEntry THEN default ELSE cache[cache_key].value

\* a request that has not reached the wrapper
NotStarted == [pc |-> "idle"]

\* lines 73-80: the wrapped view ran and its response carries the rate-limit headers
ViewResponse(v, current_count) ==
    [executed |-> v.view,
     headers |-> [limit |-> v.limit_per_day,
                  remaining |-> v.limit_per_day - current_count - 1]]

\* lines 28-67 for request i: with the limiter disabled the view runs at once;
\* otherwise the counter is read and the request is refused or admitted
WrapperEnter(i, v, req) ==
    /\ i \in DOMAIN limiter.calls
    /\ limiter.calls[i] = NotStarted
    /\ \A j \in 1..(i - 1) : limiter.calls[j] # NotStarted
    /\ LET user_key == UserKey(req)
           cache_key == RateKey(v.feature_name, user_key)
           current_count == CacheGet(cache_key, 0)
           call == [feature_name |-> v.feature_name, user_key |-> user_key, view |-> v]
       IN  limiter' =
             [limiter EXCEPT !.calls[i] =
                IF limiter.disabled
                THEN [pc |-> "done", call |-> call, ran |-> TRUE, counted |-> FALSE,
                      response |-> [executed |-> v.view]]
                ELSE IF current_count >= v.limit_per_day
                THEN [pc |-> "done", call |-> call, ran |-> FALSE, counted |-> FALSE,
                      response |-> [status |-> 429, success |-> FALSE,
                                    error |-> "DAILY_LIMIT_EXCEEDED",
                                    limit |-> v.limit_per_day, used |-> current_count]]
                ELSE [pc |-> "admitted", call |-> call, current_count |-> current_count]]
    /\ UNCHANGED <<landCache, landUseSrc, sources, dispatched, cache, massStudies, request,
                   calc, response>>

\* line 70 for request i: the counter is overwritten with the count read + 1
WrapperCount(i) ==
    /\ i \in DOMAIN limiter.calls
    /\ limiter.calls[i].pc = "admitted"
    /\ LET c == limiter.calls[i]
       IN  /\ cache' = [cache EXCEPT ![RateKey(c.call.feature_name, c.call.user_key)] =
                           [cached |-> TRUE, value |-> c.current_count + 1,
                            timeout |-> TTL_RATE_LIMIT]]
           /\ limiter' = [limiter EXCEPT !.calls[i].pc = "counted"]
    /\ UNCHANGED <<landCache, landUseSrc, sources, dispatched, massStudies, request, calc,
                   response>>

\* lines 73-80 for request i: the wrapped view runs
WrapperView(i) ==
    /\ i \in DOMAIN limiter.calls
    /\ limiter.calls[i].pc = "counted"
    /\ LET c == limiter.calls[i]
       IN  limiter' = [limiter EXCEPT !.calls[i] =
                          [pc |-> "done", call |-> c.call, ran |-> TRUE, counted |-> TRUE,
                           response |-> ViewResponse(c.call.view, c.current_count)]]
    /\ UNCHANGED <<landCache, landUseSrc, sources, dispatched, cache, massStudies, request,
                   calc, response>>

\* views.py lines 87-132: RateLimitResetView.post, reached by admin users only
RateLimitResetPost(is_staff, data) ==
    /\ request' = [op |-> "rate_limit_reset", is_staff |-> is_staff, data |-> data]
    /\ IF ~is_staff
       THEN /\ response' = [status |-> 403, success |-> FALSE]
            /\ cache' = cache
       ELSE IF data.all
       THEN /\ cache' = [k \in DOMAIN cache |-> NoEntry]
            /\ response' = [status |-> 200, success |-> TRUE, cleared |-> "all"]
       ELSE IF TruthyStr(data.user_key) /\ TruthyStr(data.feature)
       THEN /\ cache' = [cache EXCEPT ![RateKey(data.feature, data.user_key)] = NoEntry]
            /\ response' = [status |-> 200, success |-> TRUE, cleared |-> "feature"]
       ELSE IF TruthyStr(data.user_key)
       THEN LET keys == {RateKey(RESET_FEATURES[n], data.user_key) :
                            n \in 1..Len(RESET_FEATURES)}
            IN  /\ cache' = [k \in DOMAIN cache |-> IF k \in keys THEN NoEntry ELSE cache[k]]
                /\ response' = [status |-> 200, success |-> TRUE,
                                deleted |-> Cardinality({k \in keys : cache[k] # NoEntry})]
       ELSE /\ response' = [status |-> 400, success |-> FALSE]
            /\ cache' = cache
    /\ UNCHANGED <<landCache, landUseSrc, sources, dispatched, massStudies, calc, limiter>>

-----------------------------------------------------------------------------
(* SpecRate: concurrent requests to rate-limited views, no counter expiring or *)
(* being reset; SpecReset: requests and RateLimitResetView over stored counters *)

MaxRequests == 4        \* concurrent requests of SpecRate
MaxResetRequests == 1   \* requests of SpecReset

\* two anonymous clients behind the same address, and a logged-in user
ANON_FORWARDED ==
    [user |-> [is_authenticated |-> FALSE],
     META |-> [HTTP_X_FORWARDED_FOR |-> <<" ", "ip1", ",", " ", "ip2">>,
               REMOTE_ADDR |-> <<"ip9">>]]
ANON_DIRECT ==
    [user |-> [is_authenticated |-> FALSE],
     META |-> [HTTP_X_FORWARDED_FOR |-> NoneStr, REMOTE_ADDR |-> <<"ip1">>]]
LOGGED_IN ==
    [user |-> [is_authenticated |-> TRUE, id |-> 7],
     META |-> [HTTP_X_FORWARDED_FOR |-> NoneStr, REMOTE_ADDR |-> <<"ip1">>]]

Requesters == {ANON_FORWARDED, ANON_DIRECT, LOGGED_IN}
UserKeys == {UserKey(r) : r \in Requesters}
FeatureNames == {v.feature_name : v \in RATE_LIMITED_VIEWS} \cup {FEATURE_MASS_STUDY}
RateKeys == {RateKey(f, u) : f \in FeatureNames, u \in UserKeys}
ViewOf(feature_name) == CHOOSE v \in RATE_LIMITED_VIEWS : v.feature_name = feature_name

InitRate ==
    /\ \E disabled \in BOOLEAN :
          limiter = [disabled |-> disabled, calls |-> [i \in 1..MaxRequests |-> NotStarted]]
    /\ cache = [k \in RateKeys |-> NoEntry]
    /\ landCache = [p \in PNUs |-> NoRow]
    /\ landUseSrc = [p \in PNUs |-> [ok |-> FALSE]]
    /\ sources = NoSources
    /\ dispatched = << >>
    /\ massStudies = << >>
    /\ request = NoRequest
    /\ calc = NoCalc
    /\ response = NoResponse

NextRate ==
    \/ \E i \in 1..MaxRequests, req \in Requesters,
          v \in {ViewOf(FEATURE_MASS_CALC), ViewOf(FEATURE_ADDRESS_SEARCH)} :
          WrapperEnter(i, v, req)
    \/ \E i \in 1..MaxRequests : WrapperCount(i)
    \/ \E i \in 1..MaxRequests : WrapperView(i)

SpecRate == InitRate /\ [][NextRate]_vars

\* the counters of the client at ip1 that are used up when SpecReset starts
InitReset ==
    /\ \E used_up \in SUBSET RATE_LIMITED_VIEWS :
          cache = [k \in RateKeys |->
                     IF \E v \in used_up : k = RateKey(v.feature_name, UserKey(ANON_DIRECT))
                     THEN [cached |-> TRUE, value |-> ViewOf(k[2]).limit_per_day,
                           timeout |-> TTL_RATE_LIMIT]
                     ELSE NoEntry]
    /\ limiter = [disabled |-> FALSE, calls |-> [i \in 1..MaxResetRequests |-> NotStarted]]
    /\ landCache = [p \in PNUs |-> NoRow]
    /\ landUseSrc = [p \in PNUs |-> [ok |-> FALSE]]
    /\ sources = NoSources
    /\ dispatched = << >>
    /\ massStudies = << >>
    /\ request = NoRequest
    /\ calc = NoCalc
    /\ response = NoResponse

ResetBodies ==
    [user_key : {NoneStr, UserKey(ANON_DIRECT)}, feature : {NoneStr, FEATURE_MASS_CALC},
     all : BOOLEAN]

NextReset ==
    \/ \E i \in 1..MaxResetRequests, v \in RATE_LIMITED_VIEWS :
          WrapperEnter(i, v, ANON_DIRECT)
    \/ \E i \in 1..MaxResetRequests : WrapperCount(i)
    \/ \E i \in 1..MaxResetRequests : WrapperView(i)
    \/ \E is_staff \in BOOLEAN, data \in ResetBodies : RateLimitResetPost(is_staff, data)

SpecReset == InitReset /\ [][NextReset]_vars

\* the requests of one user key to one view whose wrapped view was executed
ExecutedFor(v, user_key) ==
    {i \in DOMAIN limiter.calls :
        /\ limiter.calls[i].pc = "done"
        /\ limiter.calls[i].ran
        /\ limiter.calls[i].call.view = v
        /\ limiter.calls[i].call.user_key = user_key}

\* no view is executed more often than its daily limit for one user key
AtMostLimitExecuted ==
    ~limiter.disabled =>
        \A v \in RATE_LIMITED_VIEWS, u \in UserKeys :
            Cardinality(ExecutedFor(v, u)) <= v.limit_per_day

\* a request that arrives when the stored count has reached the limit is refused
\* with DAILY_LIMIT_EXCEEDED, its view is not executed and the counter is left alone
RefusedAtLimit ==
    \A i \in DOMAIN limiter.calls :
        (/\ ~limiter.disabled
         /\ limiter.calls[i] = NotStarted
         /\ limiter'.calls[i] # NotStarted
         /\ LET c == limiter'.calls[i].call
            IN  CacheGet(RateKey(c.feature_name, c.user_key), 0) >= c.view.limit_per_day)
        => /\ limiter'.calls[i].pc = "done"
           /\ ~limiter'.calls[i].ran
           /\ limiter'.calls[i].response.error = "DAILY_LIMIT_EXCEEDED"
           /\ cache' = cache

\* C28: under any interleaving of concurrent requests from one user key to a view
\* decorated with rate_limit_free(limit_per_day = N), at most N requests have
\* their wrapped view executed while the counter is neither expired nor reset,
\* and every request arriving when the stored count is >= N is refused with
\* DAILY_LIMIT_EXCEEDED without executing the view or changing the counter.
C28_LimitUnderConcurrency ==
    /\ []AtMostLimitExecuted
    /\ [][RefusedAtLimit]_vars

\* the step is RateLimitResetView.post by an admin with only user_key given
ResetByUserStep ==
    /\ limiter' = limiter
    /\ request'.op = "rate_limit_reset"
    /\ request'.is_staff
    /\ ~request'.data.all
    /\ TruthyStr(request'.data.user_key)
    /\ ~TruthyStr(request'.data.feature)

\* C26: after RateLimitResetView.post with only user_key given, every rate-limit
\* counter of that user is cleared: for every view decorated with rate_limit_free,
\* the mass-calculation view included, the user's next request is admitted as if
\* no call had been made.
C26_ResetClearsUser ==
    [][ResetByUserStep =>
           \A v \in RATE_LIMITED_VIEWS :
               cache'[RateKey(v.feature_name, request'.data.user_key)] = NoEntry]_vars

-----------------------------------------------------------------------------
(* SpecLand: get_land_detail and the mass solver over an initially empty *)
(* LandCache table                                                       *)

InitLand ==
    /\ \E c \in CadastralAnswers, v \in VWorldAnswers, vkey \in BOOLEAN :
          sources = [geocode |-> GeocodeDown, nearby |-> [ok |-> FALSE],
                     cadastral |-> c, vworld |-> v, datago |-> [json |-> FALSE],
                     building |-> [json |-> FALSE], regulation |-> [json |-> FALSE],
                     VWORLD_API_KEY |-> vkey, DATAGO_API_KEY |-> FALSE]
    /\ \E a \in LandUseAnswers : landUseSrc = [p \in PNUs |-> a]
    /\ landCache = [p \in PNUs |-> NoRow]
    /\ cache = [k \in CacheKeys |-> NoEntry]
    /\ dispatched = << >>
    /\ massStudies = << >>
    /\ limiter = NoLimiter
    /\ request = NoRequest
    /\ calc = NoCalc
    /\ response = NoResponse

\* mass/services.py lines 9-129: MassCalculationService(pnu).calculate(...)
CallCalculate(pnu, target_floors, setbacks) ==
    /\ Representable(GetLand(pnu), setbacks)
    /\ request' = [op |-> "calculate", pnu |-> pnu, target_floors |-> target_floors,
                   setbacks |-> setbacks]
    /\ calc' = calculate(GetLand(pnu), target_floors, setbacks)
    /\ response' = calc'.result
    /\ UNCHANGED <<landCache, landUseSrc, sources, dispatched, cache, massStudies, limiter>>

NextLand ==
    \/ \E pnu \in PNUs, xy \in {<<NoneNum, NoneNum>>, <<COORD_X, COORD_Y>>, <<COORD_X, Zero>>} :
          GetLandDetail(pnu, xy[1], xy[2])
    \/ \E pnu \in PNUs, setbacks \in {DEFAULT_SETBACKS, Setbacks(Zero, Zero, Zero, Zero)} :
          CallCalculate(pnu, 2, setbacks)

SpecLand == InitLand /\ [][NextLand]_vars

\* every LandCache row has a positive area and coordinates
RowsComplete ==
    \A p \in PNUs :
        landCache[p].exists =>
            /\ landCache[p].parcel_area.n > 0
            /\ TruthyNum(landCache[p].latitude)
            /\ TruthyNum(landCache[p].longitude)

\* the call being answered is get_land_detail with coordinates and a positive area
StoringCall(p) ==
    /\ request'.op = "get_land_detail"
    /\ request'.pnu = p
    /\ TruthyNum(request'.x) /\ TruthyNum(request'.y)
    /\ response'.success
    /\ ~response'.cached
    /\ response'.data.parcel_area.n > 0

\* rows are written by storing calls only, served only with a positive area, and
\* the solver finds no land while the parcel has no row
LandCacheSteps ==
    /\ \A p \in PNUs : landCache'[p] # landCache[p] => StoringCall(p)
    /\ (request'.op = "get_land_detail" /\ response'.success /\ response'.cached) =>
           /\ landCache[request'.pnu].exists
           /\ landCache[request'.pnu].parcel_area.n > 0
    /\ (request'.op = "calculate" /\ ~landCache[request'.pnu].exists) =>
           /\ ~response'.success
           /\ response'.error = "LAND_NOT_FOUND"

\* C29: after any sequence of get_land_detail calls every LandCache row has
\* parcel_area > 0 and coordinates (a row is written only when x and y are given
\* and the resolved area is positive), a stored row is served as the cached
\* answer only when its parcel_area > 0, and calculate for a parcel returns
\* LAND_NOT_FOUND until such a get_land_detail call for that parcel has completed.
C29_LandCacheRows ==
    /\ []RowsComplete
    /\ [][LandCacheSteps]_vars

\* the solver succeeds on p1 after its row was stored, while p2 has no row
C29_Witness ==
    /\ request.op = "calculate"
    /\ request.pnu = "p1"
    /\ response.success
    /\ landCache["p1"].exists
    /\ ~landCache["p2"].exists

-----------------------------------------------------------------------------
(* apps/land/services.py: KakaoLocalService.get_road_name_by_coord and       *)
(* get_nearest_road, VWorldService.get_parcel_geometry and get_adjacent_roads *)

RAbs(a) == [n |-> Abs(a.n), d |-> a.d]

RECURSIVE RMinOf(_)
RMinOf(s) ==
    IF Len(s) = 1 THEN s[1]
    ELSE LET m == RMinOf(Tail(s)) IN IF RLeq(s[1], m) THEN s[1] ELSE m

RECURSIVE RMaxOf(_)
RMaxOf(s) ==
    IF Len(s) = 1 THEN s[1]
    ELSE LET m == RMaxOf(Tail(s)) IN IF RLeq(m, s[1]) THEN s[1] ELSE m

RECURSIVE RSumOf(_)
RSumOf(s) == IF s = << >> THEN Zero ELSE RAdd(Head(s), RSumOf(Tail(s)))

\* the first ring of a GeoJSON geometry
PolygonCoords(geometry) ==
    LET coords == geometry.coordinates
    IN  IF geometry.type = "MultiPolygon"
        THEN (IF coords # << >> /\ coords[1] # << >> THEN coords[1][1] ELSE << >>)
        ELSE IF geometry.type = "Polygon"
        THEN (IF coords # << >> THEN coords[1] ELSE << >>)
        ELSE coords

TTL_PARCEL_GEOM == 604800
TTL_ADJACENT_ROADS == 604800
TTL_KAKAO_ROAD == 86400

\* f"{x:.6f}": the sign and the magnitude rounded to 6 decimals
Fmt6(x) == [sign |-> IF x.n < 0 THEN "-" ELSE "", abs |-> RRound(RAbs(x), 6)]

\* line 298: f"kakao_road:{lng:.6f}_{lat:.6f}"
KakaoKey(lng, lat) == <<"kakao_road", <<Fmt6(lng), Fmt6(lat)>>>>

InBox(point, box) ==
    /\ RLeq(box.minX, point[1]) /\ RLeq(point[1], box.maxX)
    /\ RLeq(box.minY, point[2]) /\ RLeq(point[2], box.maxY)

\* what the Kakao coord2address upstream answers for a point: the addresses whose
\* area holds the point
KakaoUpstream(lng, lat) ==
    LET src == sources.kakao
        here == SelectSeq(src.addresses, LAMBDA a : InBox(<<lng, lat>>, a.area))
    IN  IF ~src.json THEN [json |-> FALSE]
        ELSE [json |-> TRUE,
              documents |-> [i \in 1..Len(here) |-> [road_address |-> here[i].road_address]]]

\* lines 284-328: the road address of a point, cached after an answer with documents
get_road_name_by_coord(lng, lat) ==
    LET cache_key == KakaoKey(lng, lat)
        cached == cache[cache_key]
        data == KakaoUpstream(lng, lat)
    IN  IF ~sources.KAKAO_REST_API_KEY
        THEN [ret |-> [success |-> FALSE, error |-> "no API key"],
              cache |-> cache, sent |-> << >>]
        ELSE IF cached # NoEntry THEN Hit(cached)
        ELSE IF ~data.json THEN Miss([success |-> FALSE, error |-> "Exception"], "kakao")
        ELSE IF data.documents = << >>
        THEN Miss([success |-> FALSE, error |-> "address not found"], "kakao")
        ELSE LET road_address == data.documents[1].road_address
             IN  Stored(cache_key,
                        [success |-> TRUE,
                         road_name |-> IF road_address.present THEN road_address.road_name
                                       ELSE << >>,
                         road_address |-> IF road_address.present
                                          THEN road_address.address_name ELSE << >>,
                         building_name |-> IF road_address.present
                                           THEN road_address.building_name ELSE << >>,
                         region |-> IF road_address.present
                                    THEN road_address.region_3depth_name ELSE << >>],
                        TTL_KAKAO_ROAD, "kakao")

\* metres per degree of longitude at a latitude
MetersPerLng(lat) == RMul(Int2Rat(METERS_PER_LAT), Cos(Radians(lat)))

\* lines 1160-1277: the outline, bounding box and centre of a parcel, from the
\* Lambda proxy or else from VWorld, cached after a success
get_parcel_geometry(pnu) ==
    LET cache_key == <<"parcel_geom", pnu>>
        cached == cache[cache_key]
        lambda == sources.cadastral
        fromLambda == lambda.ok /\ lambda.cadastral.present
                          /\ lambda.cadastral.geometry.present
        vw == sources.vworld
        askVWorld == ~fromLambda /\ sources.VWORLD_API_KEY
        fromVWorld == askVWorld /\ vw.json /\ vw.status_ok /\ vw.feature.present
        sent == <<"parcel">> \o (IF askVWorld THEN <<"vworld_parcel">> ELSE << >>)
        geometry == IF fromLambda THEN lambda.cadastral.geometry
                    ELSE IF fromVWorld THEN vw.feature.geometry ELSE NoGeometry
    IN  IF cached # NoEntry THEN Hit(cached)
        ELSE IF ~geometry.present \/ geometry.coordinates = << >>
        THEN [ret |-> [success |-> FALSE, error |-> "no parcel geometry"],
              cache |-> cache, sent |-> sent]
        ELSE IF PolygonCoords(geometry) = << >>
        THEN [ret |-> [success |-> FALSE, error |-> "no polygon coordinates"],
              cache |-> cache, sent |-> sent]
        ELSE LET polygon_coords == PolygonCoords(geometry)
                 lngs == [i \in 1..Len(polygon_coords) |-> polygon_coords[i][1]]
                 lats == [i \in 1..Len(polygon_coords) |-> polygon_coords[i][2]]
                 min_lng == RMinOf(lngs)
                 max_lng == RMaxOf(lngs)
                 min_lat == RMinOf(lats)
                 max_lat == RMaxOf(lats)
                 center_lng == RDiv(RAdd(min_lng, max_lng), Int2Rat(2))
                 center_lat == RDiv(RAdd(min_lat, max_lat), Int2Rat(2))
                 width == RMul(RSub(max_lng, min_lng), MetersPerLng(center_lat))
                 depth == RMul(RSub(max_lat, min_lat), Int2Rat(METERS_PER_LAT))
                 result == [success |-> TRUE,
                            geometry |-> polygon_coords,
                            bbox |-> [present |-> TRUE, minX |-> min_lng, minY |-> min_lat,
                                      maxX |-> max_lng, maxY |-> max_lat],
                            dimensions |-> [width |-> RRound(width, 2),
                                            depth |-> RRound(depth, 2)],
                            center |-> [present |-> TRUE, lng |-> center_lng,
                                        lat |-> center_lat]]
             IN  [ret |-> result,
                  cache |-> [cache EXCEPT ![cache_key] =
                                [cached |-> TRUE, value |-> result,
                                 timeout |-> TTL_PARCEL_GEOM]],
                  sent |-> sent]

\* variant: a tie between the two axes goes to the longitude axis
Direction_TieEastWest(dx, dy) ==
    IF RLeq(RAbs(dy), RAbs(dx))
    THEN (IF RLt(Zero, dx) THEN "east" ELSE "west")
    ELSE (IF RLt(Zero, dy) THEN "north" ELSE "south")

\* lines 986-989: the side of the parcel a neighbour lies on, from the offset of
\* its centre: east or west when the longitude offset is the larger one
Direction(dx, dy) ==
    IF RLt(RAbs(dy), RAbs(dx))
    THEN (IF RLt(Zero, dx) THEN "east" ELSE "west")
    ELSE (IF RLt(Zero, dy) THEN "north" ELSE "south")

\* An angle in degrees is kept as the vector (x, y) whose math.atan2(y, x) it
\* started from and the half turns added since: atan2(y, x) + 180 * turns, where
\* atan2 lies in (-180, 180].  Comparisons with multiples of 90 are exact.
Atan2Degrees(y, x) == [y |-> y, x |-> x, turns |-> 0]

\* the sign of atan2(y, x) - 90 * m degrees
CmpAtan2(y, x, m) ==
    IF m >= 3 THEN -1
    ELSE IF m <= -2 THEN 1
    ELSE IF m = 2 THEN (IF y.n = 0 /\ x.n < 0 THEN 0 ELSE -1)
    ELSE IF m = 1 THEN (IF x.n = 0 /\ y.n > 0 THEN 0
                        ELSE IF x.n < 0 /\ y.n >= 0 THEN 1 ELSE -1)
    ELSE IF m = 0 THEN (IF y.n = 0 /\ x.n >= 0 THEN 0
                        ELSE IF y.n > 0 \/ (y.n = 0 /\ x.n < 0) THEN 1 ELSE -1)
    ELSE (IF x.n = 0 /\ y.n < 0 THEN 0
          ELSE IF x.n < 0 /\ y.n < 0 THEN -1 ELSE 1)

\* the sign of angle - 90 * m degrees
CmpAngle(angle, m) == CmpAtan2(angle.y, angle.x, m - 2 * angle.turns)

\* lines 1093-1094: while road_angle > 90: road_angle -= 180
RECURSIVE NormalizeDown(_)
NormalizeDown(angle) ==
    IF CmpAngle(angle, 1) = 1 THEN NormalizeDown([angle EXCEPT !.turns = @ - 1])
    ELSE angle

\* lines 1095-1096: while road_angle < -90: road_angle += 180
RECURSIVE NormalizeUp(_)
NormalizeUp(angle) ==
    IF CmpAngle(angle, -1) = -1 THEN NormalizeUp([angle EXCEPT !.turns = @ + 1])
    ELSE angle

\* the squared distance of two points.  Squared distances are only compared with
\* each other and with 0; they are kept in units of a tenth of a metre of
\* latitude, which leaves their order as it is and the products small.
Dist(pi, pj) ==
    LET unit == Int2Rat(10 * METERS_PER_LAT)
        ex == RMul(RSub(pi[1], pj[1]), unit)
        ey == RMul(RSub(pi[2], pj[2]), unit)
    IN  RAdd(RMul(ex, ex), RMul(ey, ey))

\* the pairs of points farthest apart
FarPairs(points, pairs) ==
    {p \in pairs : \A q \in pairs : RLeq(Dist(points[q[1]], points[q[2]]),
                                            Dist(points[p[1]], points[p[2]]))}

FirstPair(pairs) ==
    CHOOSE p \in pairs : \A q \in pairs : p[1] < q[1] \/ (p[1] = q[1] /\ p[2] <= q[2])

PairOr(points, first) ==
    IF RLt(Zero, Dist(points[first[1]], points[first[2]]))
    THEN [p1 |-> points[first[1]], p2 |-> points[first[2]]]
    ELSE [p1 |-> points[1], p2 |-> points[2]]

\* lines 1073-1083: the two found points farthest apart.  The loop over the pairs
\* i < j replaces its choice only by a strictly farther pair, so it ends with the
\* first of the farthest pairs, or with the first two points when all coincide.
FarthestPair(points) ==
    PairOr(points,
           FirstPair(FarPairs(points, {p \in (1..Len(points)) \X (1..Len(points)) :
                                          p[1] < p[2]})))

\* lines 1085-1096: the slope of the line from p1 to p2, brought into range
PairAngle(far, center_lat) ==
    NormalizeUp(NormalizeDown(
        Atan2Degrees(RMul(RSub(far.p2[2], far.p1[2]), Int2Rat(METERS_PER_LAT)),
                     RMul(RSub(far.p2[1], far.p1[1]), MetersPerLng(center_lat)))))

\* lines 1071-1096: the slope of the road through the found points, in (east = 0,
\* counter-clockwise) degrees, or None with fewer than two points
NoAngle == [none |-> TRUE]
RoadAngle(points, center_lat) ==
    IF Len(points) < 2 THEN NoAngle
    ELSE PairAngle(FarthestPair(points), center_lat)

\* lines 1028-1045: the eight points probed around the bounding box, 8 m out
PROBE_NAMES == <<"N", "NE", "E", "SE", "S", "SW", "W", "NW">>
DirectionChecks(bbox, parcel_center) ==
    LET lat_offset == Rat(8, METERS_PER_LAT)
        lng_offset == RDiv(Int2Rat(8), MetersPerLng(parcel_center.lat))
        lat7 == RMul(lat_offset, Rat(7, 10))
        lng7 == RMul(lng_offset, Rat(7, 10))
    IN  << <<parcel_center.lng, RAdd(bbox.maxY, lat_offset)>>,
           <<RAdd(bbox.maxX, lng7), RAdd(bbox.maxY, lat7)>>,
           <<RAdd(bbox.maxX, lng_offset), parcel_center.lat>>,
           <<RAdd(bbox.maxX, lng7), RSub(bbox.minY, lat7)>>,
           <<parcel_center.lng, RSub(bbox.minY, lat_offset)>>,
           <<RSub(bbox.minX, lng7), RSub(bbox.minY, lat7)>>,
           <<RSub(bbox.minX, lng_offset), parcel_center.lat>>,
           <<RSub(bbox.minX, lng7), RAdd(bbox.maxY, lat7)>> >>

\* lines 1052-1069: north before south before east before west, north when none
MappedDirection(found_directions) ==
    LET mapped == {IF d \in {"N", "NE", "NW"} THEN "north"
                   ELSE IF d \in {"S", "SE", "SW"} THEN "south"
                   ELSE IF d = "E" THEN "east" ELSE "west" :
                   d \in {found_directions[n] : n \in 1..Len(found_directions)}}
    IN  IF "north" \in mapped THEN "north"
        ELSE IF "south" \in mapped THEN "south"
        ELSE IF "east" \in mapped THEN "east"
        ELSE IF "west" \in mapped THEN "west"
        ELSE "north"

\* lines 399-419: the points 30 m outside the four sides of the bounding box, or
\* 60 m from the centre without one, in the order south, north, east, west
SearchPoints(center_lng, center_lat, bbox) ==
    LET lat_offset == Rat(30, METERS_PER_LAT)
        lng_offset == RDiv(Int2Rat(30), MetersPerLng(center_lat))
        two == Int2Rat(2)
    IN  IF bbox.present
        THEN << <<center_lng, RSub(bbox.minY, lat_offset)>>,
                <<center_lng, RAdd(bbox.maxY, lat_offset)>>,
                <<RAdd(bbox.maxX, lng_offset), center_lat>>,
                <<RSub(bbox.minX, lng_offset), center_lat>> >>
        ELSE << <<center_lng, RSub(center_lat, RMul(lat_offset, two))>>,
                <<center_lng, RAdd(center_lat, RMul(lat_offset, two))>>,
                <<RAdd(center_lng, RMul(lng_offset, two)), center_lat>>,
                <<RSub(center_lng, RMul(lng_offset, two)), center_lat>> >>

\* the lookups of a list of points.  The points looked up within one call of
\* get_adjacent_roads have different cache keys for the boxes used here.
RoadNames(points) ==
    [i \in 1..Len(points) |-> get_road_name_by_coord(points[i][1], points[i][2])]

Named(results) ==
    SelectSeq([i \in 1..Len(results) |-> i],
              LAMBDA i : results[i].ret.success /\ TruthyStr(results[i].ret.road_name))

SEARCH_DIRECTIONS == <<"south", "north", "east", "west">>

NearestRoads(results, named) ==
    [ret |-> [success |-> TRUE,
              roads |-> [k \in 1..Len(named) |->
                            [direction |-> SEARCH_DIRECTIONS[named[k]],
                             road_name |-> results[named[k]].ret.road_name,
                             road_address |-> results[named[k]].ret.road_address]]],
     cache |-> CacheAfter(results),
     sent |-> SentBy(results)]

NearestOf(results) == NearestRoads(results, Named(results))

\* KakaoLocalService.get_nearest_road, lines 380-440: the road names found at the
\* four search points
get_nearest_road(center_lng, center_lat, bbox) ==
    NearestOf(RoadNames(SearchPoints(center_lng, center_lat, bbox)))

\* the end of the run of characters of a set that starts at position i
RECURSIVE RunEnd(_, _, _)
RunEnd(s, i, chars) ==
    IF i <= Len(s) /\ s[i] \in chars THEN RunEnd(s, i + 1, chars) ELSE i

CharAt(s, i) == IF i >= 1 /\ i <= Len(s) THEN s[i] ELSE "end"

\* int() of a run of decimal digits
RECURSIVE IntOfDigits(_)
IntOfDigits(s) ==
    IF s = << >> THEN 0
    ELSE 10 * IntOfDigits(SubSeq(s, 1, Len(s) - 1))
             + (CHOOSE v \in 0..9 : ToString(v) = s[Len(s)])

POK == "pok"     \* 폭
ISANG == <<"i", "sang">>     \* 이상

\* line 1126: r'\(폭\s*(\d+)m[~\-](\d+)m\)' matched at position i
WidthRangeAt(s, i) ==
    LET a == RunEnd(s, i + 2, {" "})
        b == RunEnd(s, a, Digits)
        c == RunEnd(s, b + 2, Digits)
    IN  IF /\ CharAt(s, i) = "(" /\ CharAt(s, i + 1) = POK
           /\ b > a /\ CharAt(s, b) = "m" /\ CharAt(s, b + 1) \in {"~", "-"}
           /\ c > b + 2 /\ CharAt(s, c) = "m" /\ CharAt(s, c + 1) = ")"
        THEN [matched |-> TRUE, group1 |-> IntOfDigits(SubSeq(s, a, b - 1)),
              group2 |-> IntOfDigits(SubSeq(s, b + 2, c - 1))]
        ELSE [matched |-> FALSE]

\* line 1136: r'\(폭\s*(\d+)m이상\)' matched at position i
WidthFloorAt(s, i) ==
    LET a == RunEnd(s, i + 2, {" "})
        b == RunEnd(s, a, Digits)
    IN  IF /\ CharAt(s, i) = "(" /\ CharAt(s, i + 1) = POK
           /\ b > a /\ CharAt(s, b) = "m" /\ CharAt(s, b + 1) = ISANG[1]
           /\ CharAt(s, b + 2) = ISANG[2] /\ CharAt(s, b + 3) = ")"
        THEN [matched |-> TRUE, group1 |-> IntOfDigits(SubSeq(s, a, b - 1))]
        ELSE [matched |-> FALSE]

\* re.search: the leftmost match
WidthSearch(At(_, _), s) ==
    LET starts == {i \in 1..Len(s) : At(s, i).matched}
    IN  IF starts = {} THEN [matched |-> FALSE]
        ELSE At(s, CHOOSE i \in starts : \A j \in starts : i <= j)

NoWidth == [none |-> TRUE]

\* lines 1123-1145: the width a zone name states, as a range or as a lower bound
ZoneRoadWidth(zone_name) ==
    LET range == WidthSearch(WidthRangeAt, zone_name)
        floor == WidthSearch(WidthFloorAt, zone_name)
    IN  IF range.matched
        THEN [none |-> FALSE, min |-> Int2Rat(range.group1), max |-> Int2Rat(range.group2),
              average |-> Rat(range.group1 + range.group2, 2), source |-> zone_name]
        ELSE IF floor.matched
        THEN [none |-> FALSE, min |-> Int2Rat(floor.group1),
              max |-> Int2Rat(floor.group1 + 10),
              average |-> Int2Rat(floor.group1 + 5), source |-> zone_name]
        ELSE NoWidth

\* lines 1117-1147: the width of the first zone of the zoning plan that states one
RoadWidth(land_use) ==
    IF ~land_use.success THEN NoWidth
    ELSE LET stated == SelectSeq(land_use.zones,
                                 LAMBDA zone : ~ZoneRoadWidth(zone.name).none)
         IN  IF stated = << >> THEN NoWidth ELSE ZoneRoadWidth(stated[1].name)

DO == "do"     \* 도, the land category of a road

\* lines 953-959: the last character of the jibun that is no digit, '-' or ' '
RECURSIVE Jimok(_)
Jimok(jibun) ==
    IF ~TruthyStr(jibun) THEN << >>
    ELSE LET c == jibun[Len(jibun)]
         IN  IF c \notin Digits /\ c # "-" /\ c # " " THEN <<c>>
             ELSE Jimok(SubSeq(jibun, 1, Len(jibun) - 1))

\* the continuous cadastral map answering geomFilter BOX(box): the parcels with a
\* vertex in the box
WfsUpstream(box) ==
    LET src == sources.wfs
    IN  IF ~src.json THEN [json |-> FALSE]
        ELSE [json |-> TRUE, status_ok |-> src.status_ok,
              features |-> SelectSeq(src.features,
                              LAMBDA f : \E i \in 1..Len(PolygonCoords(f.geometry)) :
                                             InBox(PolygonCoords(f.geometry)[i], box))]

\* lines 961-998: one neighbouring parcel, with the side of the parcel it lies on
ParcelData(feature, parcel_center) ==
    LET polygon_coords == PolygonCoords(feature.geometry)
        n == Int2Rat(Len(polygon_coords))
        center_lng == RDiv(RSumOf([i \in 1..Len(polygon_coords) |-> polygon_coords[i][1]]), n)
        center_lat == RDiv(RSumOf([i \in 1..Len(polygon_coords) |-> polygon_coords[i][2]]), n)
        dx == RSub(center_lng, parcel_center.lng)
        dy == RSub(center_lat, parcel_center.lat)
    IN  [pnu |-> feature.properties.pnu,
         geometry |-> polygon_coords,
         jimok |-> Jimok(feature.properties.jibun),
         jibun |-> IF feature.properties.jibun = NoneStr THEN << >>
                   ELSE feature.properties.jibun,
         direction |-> Direction(dx, dy),
         center |-> [lng |-> center_lng, lat |-> center_lat]]

\* lines 910-1007: the parcels of the cadastral map around the parcel, its own
\* and those without a polygon left out; none without API key or on an error
WfsParcels(pnu, expanded_bbox, parcel_center) ==
    LET data == WfsUpstream(expanded_bbox)
        kept == IF sources.VWORLD_API_KEY /\ data.json /\ data.status_ok
                THEN SelectSeq(data.features,
                               LAMBDA f : f.properties.pnu # pnu
                                              /\ PolygonCoords(f.geometry) # << >>)
                ELSE << >>
    IN  [i \in 1..Len(kept) |-> ParcelData(kept[i], parcel_center)]

\* lines 1046-1050: the probes that answer with the road of the parcel's address
Found(results, road_name) ==
    SelectSeq([i \in 1..Len(results) |-> i],
              LAMBDA i : results[i].ret.success /\ results[i].ret.road_name = road_name)

Picked(s, found) == [k \in 1..Len(found) |-> s[found[k]]]

\* lines 1098-1104: the road record
KakaoRoad(center_result, found_directions, found_points, center_lat) ==
    [direction |-> MappedDirection(found_directions),
     road_name |-> center_result.road_name,
     road_address |-> center_result.road_address,
     angle |-> RoadAngle(found_points, center_lat),
     found_directions |-> found_directions]

ProbedRoads(center_call, direction_checks, results, found, center_lat) ==
    [roads |-> <<KakaoRoad(center_call.ret, Picked(PROBE_NAMES, found),
                           Picked(direction_checks, found), center_lat)>>,
     calls |-> <<center_call>> \o results]

ProbedWith(center_call, direction_checks, results, center_lat) ==
    ProbedRoads(center_call, direction_checks, results,
                Found(results, center_call.ret.road_name), center_lat)

ProbedAt(center_call, direction_checks, center_lat) ==
    ProbedWith(center_call, direction_checks, RoadNames(direction_checks), center_lat)

\* lines 1019-1104: the road of the parcel's own address, looked for at eight
\* points around the parcel
KakaoProbed(bbox, parcel_center, center_call) ==
    ProbedAt(center_call,
             IF bbox.present THEN DirectionChecks(bbox, parcel_center) ELSE << >>,
             parcel_center.lat)

\* lines 1105-1112: the roads of get_nearest_road
KakaoNearest(center_call, kakao_result) ==
    [roads |-> IF kakao_result.ret.success THEN kakao_result.ret.roads ELSE << >>,
     calls |-> <<center_call, kakao_result>>]

KakaoRoadsAfter(bbox, parcel_center, center_call) ==
    IF center_call.ret.success /\ TruthyStr(center_call.ret.road_name)
    THEN KakaoProbed(bbox, parcel_center, center_call)
    ELSE KakaoNearest(center_call,
                      get_nearest_road(parcel_center.lng, parcel_center.lat, bbox))

\* lines 1010-1114: the Kakao fallback, used when the cadastral map shows no road
KakaoRoads(bbox, parcel_center) ==
    KakaoRoadsAfter(bbox, parcel_center,
                    get_road_name_by_coord(parcel_center.lng, parcel_center.lat))

\* lines 891-905: the box 50 m larger on every side
ExpandedBox(bbox, parcel_center) ==
    [minX |-> RSub(bbox.minX, RDiv(Int2Rat(50), MetersPerLng(parcel_center.lat))),
     minY |-> RSub(bbox.minY, Rat(50, METERS_PER_LAT)),
     maxX |-> RAdd(bbox.maxX, RDiv(Int2Rat(50), MetersPerLng(parcel_center.lat))),
     maxY |-> RAdd(bbox.maxY, Rat(50, METERS_PER_LAT))]

\* lines 1149-1158: the result, stored under the parcel number for 7 days
AdjacentRoadsResult(pnu, parcel_geom, kakao, land_use, result) ==
    [ret |-> result,
     cache |-> [CacheAfter(<<parcel_geom>> \o kakao.calls \o <<land_use>>)
                    EXCEPT ![<<"adjacent_roads", pnu>>] =
                        [cached |-> TRUE, value |-> result,
                         timeout |-> TTL_ADJACENT_ROADS]],
     sent |-> parcel_geom.sent
                  \o (IF sources.VWORLD_API_KEY THEN <<"wfs">> ELSE << >>)
                  \o SentBy(kakao.calls) \o land_use.sent]

AdjacentRoadsWith(pnu, parcel_center, parcel_geom, parcels, kakao, land_use) ==
    AdjacentRoadsResult(pnu, parcel_geom, kakao, land_use,
                        [success |-> TRUE,
                         roads |-> SelectSeq(parcels, LAMBDA p : p.jimok = <<DO>>),
                         adjacent_parcels |-> SelectSeq(parcels, LAMBDA p : p.jimok # <<DO>>),
                         kakao_roads |-> kakao.roads,
                         parcel_center |-> parcel_center,
                         road_width |-> RoadWidth(land_use.ret)])

\* lines 1010-1146: the Kakao fallback when no parcel is a road, then the width
AdjacentRoadsAmong(pnu, bbox, parcel_center, parcel_geom, parcels) ==
    AdjacentRoadsWith(pnu, parcel_center, parcel_geom, parcels,
                      IF \A i \in 1..Len(parcels) : parcels[i].jimok # <<DO>>
                      THEN KakaoRoads(bbox, parcel_center)
                      ELSE [roads |-> << >>, calls |-> << >>],
                      get_land_use(pnu))

\* lines 890-1158: the roads around a parcel whose box and centre are known
AdjacentRoadsAround(pnu, bbox, parcel_center, parcel_geom) ==
    AdjacentRoadsAmong(pnu, bbox, parcel_center, parcel_geom,
                       WfsParcels(pnu, ExpandedBox(bbox, parcel_center), parcel_center))

\* lines 881-889: without a centre the answer is empty and nothing is stored
AdjacentRoadsCentered(pnu, bbox, parcel_center, parcel_geom) ==
    IF ~parcel_center.present
    THEN [ret |-> [success |-> TRUE, roads |-> << >>, kakao_roads |-> << >>,
                   parcel_center |-> NoDict, error |-> "VWorld API error"],
          cache |-> parcel_geom.cache, sent |-> parcel_geom.sent]
    ELSE AdjacentRoadsAround(pnu, bbox, parcel_center, parcel_geom)

\* lines 875-879: the centre of a box
BoxCenter(box) ==
    [present |-> TRUE, lng |-> RDiv(RAdd(box.minX, box.maxX), Int2Rat(2)),
     lat |-> RDiv(RAdd(box.minY, box.maxY), Int2Rat(2))]

\* lines 866-879: the box given, or else the box and centre of the parcel's own
\* geometry
AdjacentRoadsBoxed(pnu, bbox, parcel_geom) ==
    IF ~bbox.present /\ parcel_geom.ret.success
    THEN AdjacentRoadsCentered(pnu, parcel_geom.ret.bbox, parcel_geom.ret.center,
                               parcel_geom)
    ELSE AdjacentRoadsCentered(pnu, bbox,
                               IF bbox.present THEN BoxCenter(bbox) ELSE NoDict,
                               parcel_geom)

\* lines 866-1158: what get_adjacent_roads computes when nothing is cached
AdjacentRoadsFetch(pnu, bbox) ==
    AdjacentRoadsBoxed(pnu, bbox,
                       IF bbox.present THEN NotCalled ELSE get_parcel_geometry(pnu))

\* VWorldService.get_adjacent_roads, lines 837-1158
get_adjacent_roads(pnu, bbox) ==
    LET cached == cache[<<"adjacent_roads", pnu>>]
    IN  IF cached # NoEntry THEN Hit(cached) ELSE AdjacentRoadsFetch(pnu, bbox)

-----------------------------------------------------------------------------
(* SpecRoads: get_adjacent_roads and get_nearby called with varying arguments *)

\* half the parcel's width and depth: 10 m of latitude, in degrees
PARCEL_HALF == Rat(10, METERS_PER_LAT)

BBox(minX, minY, maxX, maxY) ==
    [present |-> TRUE, minX |-> minX, minY |-> minY, maxX |-> maxX, maxY |-> maxY]

\* the box of the parcel's own geometry, and a box one half width further east
\* and twice as deep
GeometryBox == BBox(Zero, RNeg(PARCEL_HALF), RMul(Int2Rat(2), PARCEL_HALF), PARCEL_HALF)
ShiftedBox ==
    BBox(PARCEL_HALF, RMul(Int2Rat(-2), PARCEL_HALF), RMul(Int2Rat(3), PARCEL_HALF),
         RMul(Int2Rat(2), PARCEL_HALF))
BoxArguments == {NoDict, ShiftedBox}

\* every point a road name is asked for
ProbePoints ==
    UNION {LET c == BoxCenter(b)
               checks == DirectionChecks(b, c)
               search == SearchPoints(c.lng, c.lat, b)
           IN  {<<c.lng, c.lat>>} \cup {checks[i] : i \in 1..8} \cup {search[i] : i \in 1..4} :
           b \in {GeometryBox, ShiftedBox}}

RoadCacheKeys ==
    CacheKeys \cup {<<kind, p>> : kind \in {"parcel_geom", "adjacent_roads"}, p \in PNUs}
              \cup {KakaoKey(pt[1], pt[2]) : pt \in ProbePoints}

\* a lot of the cadastral map whose vertices average to (cx, cy)
Lot(cx, cy, pnu, jibun) ==
    LET e == Rat(1, METERS_PER_LAT)
        at(vx, vy) == <<RAdd(cx, RMul(Int2Rat(vx), e)), RAdd(cy, RMul(Int2Rat(vy), e))>>
    IN  [properties |-> [pnu |-> pnu, jibun |-> jibun],
         geometry |-> [present |-> TRUE, type |-> "Polygon",
                       coordinates |-> << <<at(-1, -1), at(1, -1), at(1, 2), at(0, 1),
                                            at(-1, -1)>> >>]]

OwnLot ==
    [properties |-> [pnu |-> "p1", jibun |-> JIBUN_FIELD],
     geometry |-> Diamond(PARCEL_HALF, PARCEL_HALF)]
RoadLot ==
    Lot(RMul(Int2Rat(3), PARCEL_HALF), PARCEL_HALF, "r1", <<"1", "2", "-", "3", DO>>)
FieldLot(i, j) ==
    Lot(RMul(Int2Rat(1 + i), PARCEL_HALF), RMul(Int2Rat(j), PARCEL_HALF), "n1",
        <<"7", "dae">>)

WfsAnswers ==
    {[json |-> TRUE, status_ok |-> TRUE, features |-> <<OwnLot, FieldLot(i, j)>> \o road] :
        i \in -1..1, j \in -1..1, road \in {<< >>, <<RoadLot>>}}

RoadAddress(road_name) ==
    [present |-> TRUE, road_name |-> road_name, address_name |-> road_name \o <<" ", "1">>,
     building_name |-> << >>, region_3depth_name |-> <<"a", "dong">>]
Everywhere == BBox(Int2Rat(-1), Int2Rat(-1), Int2Rat(1), Int2Rat(1))
ROAD_R == <<"r", "ro">>
ROAD_Q == <<"q", "gil">>

\* the address areas the Kakao upstream knows: none, a road running north-south
\* through the parcel, one running east-west, one everywhere, one on the northern
\* half, or an address without a road
KakaoAnswers ==
    { [json |-> FALSE],
      [json |-> TRUE, addresses |-> << >>],
      [json |-> TRUE,
       addresses |-> <<[area |-> BBox(RDiv(PARCEL_HALF, Int2Rat(2)), Int2Rat(-1),
                                      RMul(Rat(3, 2), PARCEL_HALF), Int2Rat(1)),
                        road_address |-> RoadAddress(ROAD_R)],
                       [area |-> Everywhere, road_address |-> RoadAddress(ROAD_Q)]>>],
      [json |-> TRUE,
       addresses |-> <<[area |-> BBox(Int2Rat(-1), RDiv(PARCEL_HALF, Int2Rat(-2)),
                                      Int2Rat(1), RDiv(PARCEL_HALF, Int2Rat(2))),
                        road_address |-> RoadAddress(ROAD_R)]>>],
      [json |-> TRUE,
       addresses |-> <<[area |-> Everywhere, road_address |-> RoadAddress(ROAD_R)]>>],
      [json |-> TRUE,
       addresses |-> <<[area |-> BBox(Int2Rat(-1), Zero, Int2Rat(1), Int2Rat(1)),
                        road_address |-> RoadAddress(ROAD_R)]>>],
      [json |-> TRUE,
       addresses |-> <<[area |-> BBox(Zero, RNeg(PARCEL_HALF), Int2Rat(1), PARCEL_HALF),
                        road_address |-> NoDict],
                       [area |-> Everywhere, road_address |-> RoadAddress(ROAD_Q)]>>] }

ZONE_ROAD_RANGE ==      \* 소로2류(폭 8m~10m)
    <<"so", "ro", "2", "ryu", "(", POK, " ", "8", "m", "~", "1", "0", "m", ")">>
ZONE_ROAD_FLOOR ==      \* 대로1류(폭 25m이상)
    <<"dae", "ro", "1", "ryu", "(", POK, " ", "2", "5", "m">> \o ISANG \o <<")">>
RoadLandUseAnswers ==
    { [ok |-> FALSE],
      [ok |-> TRUE, names |-> <<ZONE_GREEN_NATURAL, ZONE_ROAD_RANGE, ZONE_ROAD_FLOOR>>],
      [ok |-> TRUE, names |-> <<ZONE_ROAD_FLOOR>>] }

NorthSouthRoad == CHOOSE k \in KakaoAnswers :
                      k.json /\ Len(k.addresses) = 2 /\ k.addresses[1].road_address.present

\* the upstreams: the cadastral map varies with the Kakao road running north-south,
\* or the cadastral map is empty or down and the Kakao answer varies
RoadScenarios ==
    {[wfs |-> w, kakao |-> NorthSouthRoad, kakao_key |-> TRUE, geometry |-> TRUE,
      land_use |-> [ok |-> FALSE]] : w \in WfsAnswers}
    \cup {[wfs |-> [json |-> TRUE, status_ok |-> TRUE, features |-> <<OwnLot>>],
           kakao |-> k, kakao_key |-> TRUE, geometry |-> TRUE, land_use |-> a] :
             k \in KakaoAnswers, a \in RoadLandUseAnswers}
    \cup {[wfs |-> w, kakao |-> NorthSouthRoad, kakao_key |-> key, geometry |-> g,
           land_use |-> [ok |-> FALSE]] :
             w \in {[json |-> FALSE], [json |-> TRUE, status_ok |-> FALSE, features |-> << >>]},
             key \in BOOLEAN, g \in BOOLEAN}

InitRoads ==
    /\ \E s \in RoadScenarios, n \in {a \in NearbyAnswers : a.ok} :
          /\ sources = [geocode |-> GeocodeDown, nearby |-> n,
                        cadastral |-> IF s.geometry
                                      THEN [ok |-> TRUE,
                                            cadastral |-> Cadastral(Int2Rat(1000),
                                                              Diamond(PARCEL_HALF, PARCEL_HALF),
                                                              JIBUN_FIELD),
                                            landChar |-> NoDict]
                                      ELSE [ok |-> FALSE],
                        vworld |-> [json |-> FALSE], datago |-> [json |-> FALSE],
                        building |-> [json |-> FALSE], regulation |-> [json |-> FALSE],
                        wfs |-> s.wfs, kakao |-> s.kakao,
                        VWORLD_API_KEY |-> TRUE, DATAGO_API_KEY |-> FALSE,
                        KAKAO_REST_API_KEY |-> s.kakao_key]
          /\ landUseSrc = [p \in PNUs |-> s.land_use]
    /\ landCache = [p \in PNUs |-> NoRow]
    /\ cache = [k \in RoadCacheKeys |-> NoEntry]
    /\ dispatched = << >>
    /\ massStudies = << >>
    /\ limiter = NoLimiter
    /\ request = NoRequest
    /\ calc = NoCalc
    /\ response = NoResponse

CallGetAdjacentRoads(pnu, bbox) ==
    \E r \in {get_adjacent_roads(pnu, bbox)} :
        /\ request' = [op |-> "get_adjacent_roads", key |-> <<"adjacent_roads", pnu>>,
                       pnu |-> pnu, bbox |-> bbox]
        /\ response' = r.ret
        /\ cache' = r.cache
        /\ dispatched' = r.sent
        /\ calc' = NoCalc
        /\ UNCHANGED <<landCache, landUseSrc, sources, massStudies, limiter>>

NextRoads ==
    \/ \E bbox \in BoxArguments : CallGetAdjacentRoads("p1", bbox)
    \/ \E q \in NearbyQueries : CallGetNearby("p1", q[1], q[2], q[3])

SpecRoads == InitRoads /\ [][NextRoads]_vars

-----------------------------------------------------------------------------
(* Properties of get_adjacent_roads and get_nearby *)

\* get_adjacent_roads answered with the parcels and roads around a known centre
RoadsAnswered ==
    request.op = "get_adjacent_roads" /\ "adjacent_parcels" \in DOMAIN response

Neighbours == response.roads \o response.adjacent_parcels
OffsetLng(p) == RSub(p.center.lng, response.parcel_center.lng)
OffsetLat(p) == RSub(p.center.lat, response.parcel_center.lat)

\* the angles of the Kakao roads of the answer that carry one
ReturnedAngles ==
    {response.kakao_roads[i].angle :
        i \in {k \in 1..Len(response.kakao_roads) :
                  /\ "angle" \in DOMAIN response.kakao_roads[k]
                  /\ "turns" \in DOMAIN response.kakao_roads[k].angle}}

\* C23: every road angle returned lies in the half-open interval (-90, 90]
\* degrees, so that -90 is never returned.
C23_AngleHalfOpen ==
    RoadsAnswered =>
        \A angle \in ReturnedAngles : CmpAngle(angle, -1) = 1 /\ CmpAngle(angle, 1) # 1

\* C24: a neighbour is classified east or west, by the sign of the longitude
\* offset, exactly when the longitude offset is strictly larger in magnitude than
\* the latitude offset, and north or south, by the sign of the latitude offset,
\* otherwise; the direction is always one of the four.
C24_DirectionClassification ==
    RoadsAnswered =>
        \A i \in 1..Len(Neighbours) :
            /\ Neighbours[i].direction \in {"north", "south", "east", "west"}
            /\ Neighbours[i].direction \in {"east", "west"}
                   <=> RLt(RAbs(OffsetLat(Neighbours[i])), RAbs(OffsetLng(Neighbours[i])))
            /\ Neighbours[i].direction = "east" => RLt(Zero, OffsetLng(Neighbours[i]))
            /\ Neighbours[i].direction = "west" => RLt(OffsetLng(Neighbours[i]), Zero)
            /\ Neighbours[i].direction = "north" => RLt(Zero, OffsetLat(Neighbours[i]))
            /\ Neighbours[i].direction = "south" => RLeq(OffsetLat(Neighbours[i]), Zero)

\* a neighbour as far east as north is classified north
C24_Witness ==
    /\ RoadsAnswered
    /\ \E i \in 1..Len(Neighbours) :
          /\ OffsetLng(Neighbours[i]) = OffsetLat(Neighbours[i])
          /\ RLt(Zero, OffsetLat(Neighbours[i]))
          /\ Neighbours[i].direction = "north"

\* C30: the value a get_nearby call returns is the one fetched with the x, y and
\* radius of that call, and the value a get_adjacent_roads call returns is the
\* one computed for the bbox of that call.
C30_AnswerForArguments ==
    [][/\ request'.op = "get_nearby"
            => response' = NearbyFetch(request'.pnu, request'.x, request'.y,
                                       request'.radius).ret
       /\ request'.op = "get_adjacent_roads"
            => response' = AdjacentRoadsFetch(request'.pnu, request'.bbox).ret]_vars

====
